---- MODULE Spec2Model ----
(***************************************************************************)
(* Verification model of the market-price estimation pipeline of Rendimo   *)
(* (src/api/price_api.py): the 24 h two-tier cache, the INSEE resolver,    *)
(* the DVF aggregate fetcher, the statistics engine and the comparator.    *)
(***************************************************************************)
EXTENDS Integers, Sequences, FiniteSets, TLC

VARIABLES
    now,         \* time.time(), in seconds
    ticks,       \* number of clock advances taken so far
    mem_cache,   \* self._mem_cache : key -> payload (Absent when the key is not in the dict)
    disk,        \* the files of self._cache_dir : file name -> content
    lastSet,     \* history: key -> << payload of the latest _cache_set(key, .) >>, << >> if none
    sets,        \* number of _cache_set calls made so far
    ret,         \* the latest call of the cache API and what it returned
    pc,          \* position of the running get_local_prices call ("idle" when none runs)
    req,         \* its arguments [city, postal_code, property_type]
    geo,         \* the responses of the geocode directory to this call, in order
    insee_code,  \* local insee_code of get_local_prices: Some(code) or None
    cached,      \* what _cache_get returned to this call: Some(entry) or None
    pos,         \* position inside _query_dvf_aggregate: [base, stage, idx]
    totals,      \* locals total_price, total_surf of the running do_request
    log,         \* the requests the running do_request(base) has sent so far, in order
    agg,         \* what _query_dvf_aggregate returned: Some(dict) or None
    result,      \* outcome of the get_local_prices call
    args,        \* arguments of the pure function under check (None when none is)
    out,         \* Some(what it returned), None before it has run
    conversation_state  \* AIAssistant.conversation_state

cacheVars == <<now, ticks, mem_cache, disk, lastSet, sets, ret>>
estVars == <<pc, req, geo, insee_code, cached, pos, totals, log, agg, result>>
fnVars == <<args, out, conversation_state>>
vars == <<now, ticks, mem_cache, disk, lastSet, sets, ret,
          pc, req, geo, insee_code, cached, pos, totals, log, agg, result,
          args, out, conversation_state>>

(***************************************************************************)
(* Options: None is the empty tuple, Some(x) the one-element tuple.        *)
(***************************************************************************)
None == << >>
Some(x) == <<x>>

\* AIAssistant.__init__ (ai_assistant.py 84-88): no questionnaire is running
NoConversation ==
    [questionnaire_active |-> FALSE, current_question |-> None,
     collected_answers |-> << >>]

(***************************************************************************)
(* Cache 24h (price_api.py 543-577)                                        *)
(***************************************************************************)
\* 24 * 3600, the lifetime tested at read time
TTL == 24 * 3600

\* bounds of the cache model
MaxTicks == 3
MaxSets == 2

\* the clock advances by one minute or by 23 h 59 min
ClockSteps == {60, 86340}

\* f"agg:{insee_code}:{property_type}:{months}", as the tuple of its fragments
CacheKey(insee, ptype, months) ==
    <<"agg", ":", insee, ":", ptype, ":", months>>

\* the administrative codes and categories of the model
Codes == {"17434"}
Types == {"apartment", "house"}

\* the keys get_local_prices builds
Keys == { CacheKey(c, t, "24") : c \in Codes, t \in Types }
Vals == {"v1", "v2"}

\* key.replace(':', '_').replace('/', '_')
_safe_key(key) == [i \in DOMAIN key |-> IF key[i] \in {":", "/"} THEN "_" ELSE key[i]]

Files == { _safe_key(k) : k \in Keys }

Absent == [kind |-> "absent"]
Corrupt == [kind |-> "corrupt"]
Payload(ts, data) == [kind |-> "json", ts |-> ts, data |-> data]

\* mutation of _cache_get: the disk tier is never read
_cache_get_MemoryOnly(m, d, t, key) ==
    IF m[key].kind = "json" /\ t - m[key].ts < TTL
    THEN <<Some(m[key].data), m>>
    ELSE <<None, m>>

\* mutation of IsLive: the lifetime is one hour
IsLive_Hour(t, payload) == t - payload.ts < 3600

\* mutation of IsLive: an entry of exactly 24 h still counts as live
IsLive_Inclusive(t, payload) == t - payload.ts <= TTL

\* now - payload.get('_ts', 0) < 24 * 3600
IsLive(t, payload) == t - payload.ts < TTL

\* mutation of _cache_get: a disk hit is copied into memory with the time of
\* the read as its timestamp
_cache_get_Refresh(m, d, t, key) ==
    LET entry == m[key]
        f == d[_safe_key(key)]
    IN  IF entry.kind = "json" /\ IsLive(t, entry)
        THEN <<Some(entry.data), m>>
        ELSE IF f.kind = "json" /\ IsLive(t, f)
             THEN <<Some(f.data), [m EXCEPT ![key] = Payload(t, f.data)]>>
             ELSE <<None, m>>

\* _cache_get: << returned value, new _mem_cache >> for memory m, files d, clock t
_cache_get(m, d, t, key) ==
    LET entry == m[key]
        f == d[_safe_key(key)]
    IN  IF entry.kind = "json" /\ IsLive(t, entry)
        THEN <<Some(entry.data), m>>
        ELSE IF f.kind = "json" /\ IsLive(t, f)
             THEN <<Some(f.data), [m EXCEPT ![key] = f]>>
             ELSE <<None, m>>

\* outcomes of the file write of _cache_set: written, open() failed (file
\* untouched), or json.dump failed after open() truncated the file
WriteOutcomes == {"ok", "open_failed", "dump_failed"}

\* _cache_set: << new _mem_cache, new files >>
_cache_set(m, d, t, key, data, outcome) ==
    LET payload == Payload(t, data)
        fname == _safe_key(key)
    IN  << [m EXCEPT ![key] = payload],
           CASE outcome = "ok" -> [d EXCEPT ![fname] = payload]
             [] outcome = "dump_failed" -> [d EXCEPT ![fname] = Corrupt]
             [] OTHER -> d >>

InitCache ==
    /\ now = 0
    /\ ticks = 0
    /\ mem_cache = [k \in Keys |-> Absent]
    /\ disk = [f \in Files |-> Absent]
    /\ lastSet = [k \in Keys |-> None]
    /\ sets = 0
    /\ ret = [op |-> "none", key |-> None, val |-> None, at |-> 0]

\* time passes (between calls of the API: a call reads the clock once)
Tick(d) ==
    /\ pc = "idle"
    /\ result.status = "none"
    /\ ticks < MaxTicks
    /\ now' = now + d
    /\ ticks' = ticks + 1
    /\ UNCHANGED <<mem_cache, disk, lastSet, sets, ret>>
    /\ UNCHANGED estVars
    /\ UNCHANGED fnVars

CacheSet(key, data, outcome) ==
    /\ sets < MaxSets
    /\ LET r == _cache_set(mem_cache, disk, now, key, data, outcome)
       IN  /\ mem_cache' = r[1]
           /\ disk' = r[2]
    /\ lastSet' = [lastSet EXCEPT ![key] = Some(Payload(now, data))]
    /\ sets' = sets + 1
    /\ ret' = [op |-> "set", key |-> Some(key), val |-> None, at |-> now]
    /\ UNCHANGED <<now, ticks>>
    /\ UNCHANGED estVars
    /\ UNCHANGED fnVars

CacheGet(key) ==
    /\ LET r == _cache_get(mem_cache, disk, now, key)
       IN  /\ ret' = [op |-> "get", key |-> Some(key), val |-> r[1], at |-> now]
           /\ mem_cache' = r[2]
    /\ UNCHANGED <<now, ticks, disk, lastSet, sets>>
    /\ UNCHANGED estVars
    /\ UNCHANGED fnVars

\* a new PriceAPI() in a new process: _mem_cache = {} and the files stay
Restart ==
    /\ pc = "idle"
    /\ result.status = "none"
    /\ \E k \in DOMAIN mem_cache : mem_cache[k] # Absent
    /\ mem_cache' = [k \in DOMAIN mem_cache |-> Absent]
    /\ ret' = [op |-> "none", key |-> None, val |-> None, at |-> now]
    /\ UNCHANGED <<now, ticks, disk, lastSet, sets>>
    /\ UNCHANGED estVars
    /\ UNCHANGED fnVars

(***************************************************************************)
(* Floats.  A Python float is a natural number here, or one of the two     *)
(* special values json and float arithmetic produce: inf (1e999, Infinity) *)
(* and nan.  Negative values do not occur in the modelled payloads.        *)
(***************************************************************************)
Inf == -1
NaN == -2

IsFinite(x) == x >= 0

\* a + b
FAdd(a, b) ==
    IF a = NaN \/ b = NaN THEN NaN
    ELSE IF a = Inf \/ b = Inf THEN Inf
    ELSE a + b

\* x > 0
FPos(x) == x = Inf \/ (IsFinite(x) /\ x > 0)

\* a / b for b > 0, as the fraction [num, den]; den = 0 marks inf and nan
FDiv(a, b) ==
    IF a = NaN \/ b = NaN \/ (a = Inf /\ b = Inf) THEN [num |-> NaN, den |-> 0]
    ELSE IF a = Inf THEN [num |-> Inf, den |-> 0]
    ELSE IF b = Inf THEN [num |-> 0, den |-> 1]
    ELSE [num |-> a, den |-> b]

\* bool(x) of a float: 0.0 is the only falsy one (nan and inf are truthy)
FTruthy(q) == q.den = 0 \/ q.num # 0

\* round(x) of a finite float: to the nearest integer, ties to the even one
PyRound(q) ==
    LET fl == q.num \div q.den
        r2 == 2 * (q.num % q.den)
    IN  IF r2 < q.den THEN fl
        ELSE IF r2 > q.den THEN fl + 1
        ELSE IF fl % 2 = 0 THEN fl ELSE fl + 1

(***************************************************************************)
(* Geocode Resolver (price_api.py 107-128)                                 *)
(***************************************************************************)
\* what the directory can answer to the single GET of _resolve_insee:
\* a transport error or timeout, a non-200 status, a 200 whose body is not
\* JSON or not a list of objects, and a 200 with a list of results
GeoResponses ==
    { [kind |-> "exc"], [kind |-> "non200"], [kind |-> "malformed"],
      [kind |-> "list", codes |-> << >>],
      [kind |-> "list", codes |-> <<None>>] }
    \cup { [kind |-> "list", codes |-> <<Some(c)>>] : c \in Codes }
    \cup { [kind |-> "list", codes |-> <<None, Some(c)>>] : c \in Codes }

\* mutation of _resolve_insee: the status code is not tested, so the body of
\* an error page is read as a result list
_resolve_insee_NoStatusCheck(resp) ==
    IF resp.kind \in {"list", "non200"}
    THEN IF resp.kind = "list" /\ Len(resp.codes) > 0 THEN resp.codes[1]
         ELSE Some("17434")
    ELSE None

RECURSIVE FirstCode(_)
FirstCode(codes) ==
    IF codes = << >> THEN None
    ELSE IF Head(codes) # None THEN Head(codes) ELSE FirstCode(Tail(codes))

\* mutation of _resolve_insee: the first result that has a code is used
_resolve_insee_AnyResult(resp) ==
    IF resp.kind = "list" THEN FirstCode(resp.codes) ELSE None

\* _resolve_insee, as a function of the response to its request
_resolve_insee(resp) ==
    IF resp.kind = "list"
    THEN IF Len(resp.codes) > 0 THEN resp.codes[1] ELSE None
    ELSE None

(***************************************************************************)
(* Transaction Fetcher: the aggregate query (price_api.py 277-475)         *)
(***************************************************************************)
\* mutation of zfill: no padding
zfill_None(str, width) == str

\* str.zfill(width) on a string of digits
RECURSIVE zfill(_, _)
zfill(str, width) == IF Len(str) < width THEN zfill("0" \o str, width) ELSE str

\* range(a, b) as a list
Range(a, b) == [k \in 1..(b - a) |-> a + k - 1]

\* [f"751{str(i).zfill(2)}" for i in range(1, 21)]
Paris == [k \in DOMAIN Range(1, 21) |-> "751" \o zfill(ToString(Range(1, 21)[k]), 2)]
\* [f"6938{i}" for i in range(1, 10)]
Lyon == [k \in DOMAIN Range(1, 10) |-> "6938" \o ToString(Range(1, 10)[k])]
\* [f"132{str(i).zfill(2)}" for i in range(1, 17)]
Marseille == [k \in DOMAIN Range(1, 17) |-> "132" \o zfill(ToString(Range(1, 17)[k]), 2)]

_expand_insee_to_query(code) ==
    IF code = "75056" THEN Paris
    ELSE IF code = "69123" THEN Lyon
    ELSE IF code = "13055" THEN Marseille
    ELSE <<code>>

\* the two hard-coded analyze endpoints (DVF_API_BASE_URL is not set)
base_urls == << "data.economie.gouv.fr", "api.etalab.gouv.fr" >>

\* the refine fields of the place-name fallback
refine_fields == << "nom_commune", "commune" >>

\* a commune that is not the resolved one
OtherCode == "17700x"

Pt(serie, x, y) == [serie |-> serie, x |-> x, y |-> y]

\* JSON bodies of a 200 answer of the analyze endpoint: the data points of its
\* series, and how many sale records the sums were taken over (the count is
\* not part of the answer).  "bad" is a body that is not a JSON object,
\* "cheap" the sums of a single sale at one euro.
Bodies(code) ==
    { [name |-> "bad", points |-> << >>, nrec |-> 0],
      [name |-> "empty", points |-> << >>, nrec |-> 0],
      [name |-> "own",
       points |-> << Pt("valeur_fonciere", code, 6000),
                     Pt("surface_reelle_bati", code, 2) >>, nrec |-> 20],
      [name |-> "price_only",
       points |-> << Pt("valeur_fonciere", code, 6000) >>, nrec |-> 20],
      [name |-> "cheap",
       points |-> << Pt("valeur_fonciere", code, 1),
                     Pt("surface_reelle_bati", code, 4) >>, nrec |-> 1],
      [name |-> "mixed",
       points |-> << Pt("valeur_fonciere", code, 6000),
                     Pt("valeur_fonciere", OtherCode, 9000),
                     Pt("surface_reelle_bati", code, 2),
                     Pt("surface_reelle_bati", OtherCode, 1) >>, nrec |-> 20],
      [name |-> "overflow",
       points |-> << Pt("valeur_fonciere", code, Inf),
                     Pt("surface_reelle_bati", code, 2) >>, nrec |-> 20] }

\* what the dataset can answer to one GET: a transport error or timeout, a
\* non-200 status, or a 200 with a body
DvfResponses(code) ==
    { [status |-> "exc", body |-> [name |-> "none", points |-> << >>, nrec |-> 0]],
      [status |-> "non200", body |-> [name |-> "none", points |-> << >>, nrec |-> 0]] }
    \cup { [status |-> "ok", body |-> b] : b \in Bodies(code) }

InSeq(x, sq) == \E i \in DOMAIN sq : sq[i] = x

RECURSIVE SumPoints(_, _, _, _)
\* the sum of the y of the points of series `serie` whose x passes the filter
SumPoints(points, serie, filtered, codes) ==
    IF points = << >> THEN 0
    ELSE LET pt == Head(points)
             rest == SumPoints(Tail(points), serie, filtered, codes)
         IN  IF pt.serie = serie /\ (~filtered \/ InSeq(pt.x, codes))
             THEN FAdd(pt.y, rest)
             ELSE rest

\* mutation of extract_sums_from_series: codes_filter is ignored
extract_sums_NoFilter(body, filtered, codes) ==
    << SumPoints(body.points, "valeur_fonciere", FALSE, codes),
       SumPoints(body.points, "surface_reelle_bati", FALSE, codes) >>

\* extract_sums_from_series(data_json, codes_filter): << total_price, total_surf >>
extract_sums_from_series(body, filtered, codes) ==
    << SumPoints(body.points, "valeur_fonciere", filtered, codes),
       SumPoints(body.points, "surface_reelle_bati", filtered, codes) >>

\* lookback: months = 24 in get_local_prices, 36 in the widened query
Months == "24"
MonthsWide == "36"

\* the lookback a stage of do_request filters on: where, or where_wide
Window(stage) == IF stage = "wide" THEN MonthsWide ELSE Months

\* the stages that pass codes_filter = exp_codes to extract_sums_from_series
Filtered(stage) == stage \in {"postal", "name"}

\* total_price > 0 and total_surf > 0
Sufficient(t) == FPos(t[1]) /\ FPos(t[2])

\* {"avg_m2": total_price / total_surf, "count": None, "period_months": months}
AggOf(t) == [avg_m2 |-> FDiv(t[1], t[2]), count |-> None, period_months |-> Months]

\* mutation of AfterStage: the widened window is never tried
AfterStage_NoWide(stage, t, rq) ==
    LET nameOr == IF rq.city # "" THEN "name" ELSE "end"
    IN  CASE stage = "commune" -> IF rq.postal_code # None THEN "postal" ELSE nameOr
          [] stage = "postal" -> nameOr
          [] OTHER -> "end"

\* the stage do_request enters when `stage` ends without a return:
\* "if postal_code:", "if city:", "if total_price == 0.0 and total_surf == 0.0:"
AfterStage(stage, t, rq) ==
    LET wideOrEnd == IF t[1] = 0 /\ t[2] = 0 THEN "wide" ELSE "end"
        nameOr == IF rq.city # "" THEN "name" ELSE wideOrEnd
    IN  CASE stage = "commune" -> IF rq.postal_code # None THEN "postal" ELSE nameOr
          [] stage = "postal" -> nameOr
          [] stage = "name" -> wideOrEnd
          [] OTHER -> "end"

Goto(stage, t, p) ==
    IF stage = "end"
    THEN [done |-> TRUE, out |-> None, pos |-> p, totals |-> t]
    ELSE [done |-> FALSE, out |-> None,
          pos |-> [base |-> p.base, stage |-> stage, idx |-> 1], totals |-> t]

Return(o, t, p) == [done |-> TRUE, out |-> o, pos |-> p, totals |-> t]

\* one step of do_request: the answer r to the GET at position p, given the
\* running totals t.  done: do_request returns out; else it goes on at pos.
do_request(r, p, t, rq, exp_codes) ==
    IF r.status = "exc" \/ (r.status = "ok" /\ r.body.name = "bad")
    THEN Return(None, t, p)
    ELSE LET sums == extract_sums_from_series(r.body, Filtered(p.stage), exp_codes)
             t2 == IF r.status = "ok"
                   THEN <<FAdd(t[1], sums[1]), FAdd(t[2], sums[2])>>
                   ELSE t
             next == [p EXCEPT !.idx = p.idx + 1]
         IN  CASE p.stage \in {"commune", "wide"} ->
                    IF p.idx < Len(exp_codes)
                    THEN [done |-> FALSE, out |-> None, pos |-> next, totals |-> t2]
                    ELSE IF Sufficient(t2) THEN Return(Some(AggOf(t2)), t2, p)
                    ELSE Goto(AfterStage(p.stage, t2, rq), t2, p)
               [] p.stage = "postal" ->
                    IF Sufficient(t2) THEN Return(Some(AggOf(t2)), t2, p)
                    ELSE Goto(AfterStage(p.stage, t2, rq), t2, p)
               [] OTHER ->
                    IF r.status = "ok" /\ Sufficient(t2)
                    THEN Return(Some(AggOf(t2)), t2, p)
                    ELSE IF p.idx < Len(refine_fields)
                    THEN [done |-> FALSE, out |-> None, pos |-> next, totals |-> t2]
                    ELSE Goto(AfterStage(p.stage, t2, rq), t2, p)

(***************************************************************************)
(* Price Estimator (price_api.py 64-104)                                   *)
(***************************************************************************)
Cities == {"Surgeres"}
PostalCodes == {None, Some("17700")}

ErrNoInsee == [error |-> "Aucune estimation DVF disponible (INSEE introuvable)"]
ErrNoData == [error |-> "Aucune estimation DVF disponible"]

\* mutation of CountOrNA: a missing count is reported as a known count
CountOrNA_Known(count) ==
    IF count # None THEN [known |-> TRUE, n |-> count[1]] ELSE [known |-> TRUE, n |-> 0]

\* agg.get("count") or "N/A"
CountOrNA(count) ==
    IF count # None /\ count[1] # 0
    THEN [known |-> TRUE, n |-> count[1]]
    ELSE [known |-> FALSE, n |-> 0]

\* the dict get_local_prices builds from a finite average
Estimate(a, rq) ==
    [ price_per_sqm |-> PyRound(a.avg_m2),
      min_price |-> None,
      max_price |-> None,
      transaction_count |-> CountOrNA(a.count),
      data_period |-> <<Months, "derniers mois">>,
      city |-> rq.city,
      postal_code |-> rq.postal_code,
      property_type |-> rq.property_type,
      source |-> "DVF (agregat API)",
      confidence |-> None ]

NoPos == [base |-> 0, stage |-> "none", idx |-> 0]
NoReq == [city |-> "", postal_code |-> None, property_type |-> ""]

InitEst ==
    /\ pc = "idle"
    /\ req = NoReq
    /\ geo = << >>
    /\ insee_code = None
    /\ cached = None
    /\ pos = NoPos
    /\ totals = <<0, 0>>
    /\ log = << >>
    /\ agg = None
    /\ result = [status |-> "none", value |-> None]

InitFn ==
    /\ args = None
    /\ out = None
    /\ conversation_state = NoConversation

\* get_local_prices(city, postal_code, property_type) is called
Call(city, postal_code, property_type) ==
    /\ pc = "idle"
    /\ result.status = "none"
    /\ pc' = "resolve"
    /\ req' = [city |-> city, postal_code |-> postal_code, property_type |-> property_type]
    /\ geo' = << >>
    /\ insee_code' = None
    /\ cached' = None
    /\ pos' = NoPos
    /\ totals' = <<0, 0>>
    /\ log' = << >>
    /\ agg' = None
    /\ result' = [status |-> "running", value |-> None]
    /\ UNCHANGED cacheVars
    /\ UNCHANGED fnVars

\* line 75-79: insee_code = self._resolve_insee(city, postal_code)
Resolve(resp) ==
    /\ pc = "resolve"
    /\ geo' = Append(geo, resp)
    /\ insee_code' = _resolve_insee(resp)
    /\ IF insee_code' = None
       THEN /\ result' = [status |-> "returned", value |-> Some(ErrNoInsee)]
            /\ pc' = "idle"
       ELSE /\ pc' = "lookup"
            /\ UNCHANGED result
    /\ UNCHANGED <<req, cached, pos, totals, log, agg>>
    /\ UNCHANGED cacheVars
    /\ UNCHANGED fnVars

\* line 81-84: cached = self._cache_get(cache_key); if cached: return cached
Lookup ==
    /\ pc = "lookup"
    /\ LET key == CacheKey(insee_code[1], req.property_type, Months)
           r == _cache_get(mem_cache, disk, now, key)
       IN  /\ mem_cache' = r[2]
           /\ cached' = r[1]
           /\ ret' = [op |-> "get", key |-> Some(key), val |-> r[1], at |-> now]
           /\ IF r[1] # None
              THEN /\ result' = [status |-> "returned", value |-> r[1]]
                   /\ pc' = "idle"
                   /\ UNCHANGED <<pos, totals>>
              ELSE /\ pc' = "fetch"
                   /\ pos' = [base |-> 1, stage |-> "commune", idx |-> 1]
                   /\ totals' = <<0, 0>>
                   /\ UNCHANGED result
    /\ UNCHANGED <<req, geo, insee_code, log, agg>>
    /\ UNCHANGED <<now, ticks, disk, lastSet, sets>>
    /\ UNCHANGED fnVars

\* line 86, 469-473: one GET of do_request(base) and what follows from its answer
Fetch(resp) ==
    /\ pc = "fetch"
    /\ LET exp_codes == _expand_insee_to_query(insee_code[1])
           step == do_request(resp, pos, totals, req, exp_codes)
           entry == [base |-> pos.base, stage |-> pos.stage, idx |-> pos.idx,
                     window |-> Window(pos.stage), status |-> resp.status,
                     body |-> resp.body.name, nrec |-> resp.body.nrec]
       IN  /\ log' = IF pos.idx = 1 /\ pos.stage = "commune"
                     THEN <<entry>> ELSE Append(log, entry)
           /\ IF ~step.done
              THEN /\ pos' = step.pos
                   /\ totals' = step.totals
                   /\ UNCHANGED <<pc, agg>>
              ELSE IF step.out # None \/ pos.base = Len(base_urls)
              THEN /\ agg' = step.out
                   /\ pc' = "package"
                   /\ pos' = step.pos
                   /\ totals' = step.totals
              ELSE /\ pos' = [base |-> pos.base + 1, stage |-> "commune", idx |-> 1]
                   /\ totals' = <<0, 0>>
                   /\ UNCHANGED <<pc, agg>>
    /\ UNCHANGED <<req, geo, insee_code, cached, result>>
    /\ UNCHANGED cacheVars
    /\ UNCHANGED fnVars

\* line 87-104: package the aggregate, write it to the cache, return
Package(outcome) ==
    /\ pc = "package"
    /\ pc' = "idle"
    /\ IF agg # None /\ FTruthy(agg[1].avg_m2)
       THEN IF agg[1].avg_m2.den = 0
            THEN \* int(round(avg)) raises OverflowError (inf) or ValueError (nan)
                 /\ result' = [status |-> "raised", value |-> None]
                 /\ UNCHANGED <<mem_cache, disk, lastSet, sets, ret>>
            ELSE LET key == CacheKey(insee_code[1], req.property_type, Months)
                     res == Estimate(agg[1], req)
                     w == _cache_set(mem_cache, disk, now, key, res, outcome)
                 IN  /\ mem_cache' = w[1]
                     /\ disk' = w[2]
                     /\ lastSet' = [lastSet EXCEPT ![key] = Some(Payload(now, res))]
                     /\ sets' = sets + 1
                     /\ ret' = [op |-> "set", key |-> Some(key), val |-> None, at |-> now]
                     /\ result' = [status |-> "returned", value |-> Some(res)]
       ELSE /\ result' = [status |-> "returned", value |-> Some(ErrNoData)]
            /\ UNCHANGED <<mem_cache, disk, lastSet, sets, ret>>
    /\ UNCHANGED <<req, geo, insee_code, cached, pos, totals, log, agg>>
    /\ UNCHANGED <<now, ticks>>
    /\ UNCHANGED fnVars

NextEstimator ==
    \/ \E c \in Cities, pcode \in PostalCodes, t \in Types : Call(c, pcode, t)
    \/ \E resp \in GeoResponses : Resolve(resp)
    \/ Lookup
    \/ pc = "fetch" /\ \E resp \in DvfResponses(insee_code[1]) : Fetch(resp)
    \/ \E o \in WriteOutcomes : Package(o)
    \/ \E d \in ClockSteps : Tick(d)
    \/ Restart

\* the estimate an earlier successful call for key k left in the cache
SeedEstimate(k, postal_code) ==
    Estimate(AggOf(<<8000, 2>>),
             [city |-> "Surgeres", postal_code |-> postal_code, property_type |-> k[5]])

\* one call of get_local_prices, made after earlier calls have written the
\* entries of the keys in `seeded` at time 0
InitEstimator ==
    /\ InitEst
    /\ now = 0
    /\ ticks = 0
    /\ sets = 0
    /\ ret = [op |-> "none", key |-> None, val |-> None, at |-> 0]
    /\ \E seeded \in SUBSET Keys, pcode \in {Some("17700")} :
          /\ mem_cache = [k \in Keys |-> IF k \in seeded
                                        THEN Payload(0, SeedEstimate(k, pcode))
                                        ELSE Absent]
          /\ disk = [f \in Files |->
                       IF \E k \in seeded : _safe_key(k) = f
                       THEN Payload(0, SeedEstimate(
                                CHOOSE k \in seeded : _safe_key(k) = f, pcode))
                       ELSE Absent]
          /\ lastSet = [k \in Keys |-> IF k \in seeded
                                      THEN Some(Payload(0, SeedEstimate(k, pcode)))
                                      ELSE None]

InitSpecEstimator == InitEstimator /\ InitFn

SpecEstimator == InitSpecEstimator /\ [][NextEstimator]_vars

NextCache ==
    \/ \E d \in ClockSteps : Tick(d)
    \/ \E k \in Keys, v \in Vals, o \in WriteOutcomes : CacheSet(k, v, o)
    \/ \E k \in Keys : CacheGet(k)
    \/ Restart

InitSpecCache == InitCache /\ InitEst /\ InitFn

SpecCache == InitSpecCache /\ [][NextCache]_vars

\* the entry of the latest _cache_set(key, .) is held in memory or in key's file
Held(key) ==
    /\ lastSet[key] # None
    /\ \/ mem_cache[key] = lastSet[key][1]
       \/ disk[_safe_key(key)] = lastSet[key][1]

\* C1: a _cache_get(k) made at time t, when the latest _cache_set(k, v) was made
\* at time T and its entry is held in memory or on disk, returns v if
\* t - T < 24 h and None (a miss) if t - T >= 24 h.
C1_CacheTTL ==
    [][\A k \in Keys :
          (CacheGet(k) /\ Held(k)) =>
              ret'.val = IF now - lastSet[k][1].ts < 86400
                         THEN Some(lastSet[k][1].data)
                         ELSE None]_vars

\* a read at exactly T + 24 h of an entry held only on disk was a miss
C1_Witness ==
    \E k \in Keys :
        /\ ret = [op |-> "get", key |-> Some(k), val |-> None, at |-> now]
        /\ lastSet[k] # None
        /\ mem_cache[k] = Absent
        /\ disk[_safe_key(k)] = lastSet[k][1]
        /\ now - lastSet[k][1].ts = 86400

(***************************************************************************)
(* Properties of the estimator                                             *)
(***************************************************************************)
\* the key of the running call, once the code is resolved
ReqKey == CacheKey(insee_code[1], req.property_type, Months)

\* the tier entry e is a live entry at the time of the call
LiveEntry(e) == e.kind = "json" /\ now - e.ts < 86400

HasField(r, f) == f \in DOMAIN r

IsError(r) == HasField(r, "error") /\ ~HasField(r, "price_per_sqm")
IsEstimate(r) == HasField(r, "price_per_sqm") /\ ~HasField(r, "error")

\* the responses for which the directory lookup finds nothing
NotFoundKinds == {"exc", "non200", "malformed"}
GeoNotFound(resp) ==
    \/ resp.kind \in NotFoundKinds
    \/ resp.kind = "list" /\ (resp.codes = << >> \/ resp.codes[1] = None)

\* C2 as stated: a call that returns a live cache entry has made no request
\* to the geocode directory and none to the transactions dataset (the cache
\* is consulted first).
C2_CacheFirst_Original ==
    (result.status = "returned" /\ cached # None) => (geo = << >> /\ log = << >>)

\* C2 amended: the cache is consulted right after the (single) geocode
\* request, under the resolved code: a live entry of the resolved key is
\* returned at once, without any request to the transactions dataset, and
\* the dataset is queried only when neither tier holds a live entry.
C2_CacheAfterResolve ==
    /\ cached # None =>
          /\ pc = "idle"
          /\ result = [status |-> "returned", value |-> cached]
          /\ Len(geo) = 1
          /\ log = << >>
          /\ LiveEntry(mem_cache[ReqKey])
          /\ cached = Some(mem_cache[ReqKey].data)
    /\ pc = "fetch" =>
          /\ Len(geo) = 1
          /\ ~LiveEntry(mem_cache[ReqKey])
          /\ ~LiveEntry(disk[_safe_key(ReqKey)])

\* a live entry was returned, after time had passed, without a dataset request
C2_Witness ==
    /\ result.status = "returned"
    /\ cached # None
    /\ Len(geo) = 1
    /\ log = << >>
    /\ ret.op = "get"
    /\ now > 0

\* C3: get_local_prices never raises, and what it returns carries an error
\* marker or a price_per_sqm.
C3_NeverRaises ==
    /\ result.status # "raised"
    /\ result.status = "returned" =>
          (HasField(result.value[1], "error") \/ HasField(result.value[1], "price_per_sqm"))

\* the global default house price of the reference table
DefaultHousePrice == 3600

PostalRescue ==
    /\ pc = "idle"
    /\ result.status = "returned"
    /\ Len(log) = 2
    /\ log[1].stage = "commune" /\ log[1].body \in {"empty", "none"}
    /\ log[2].stage = "postal" /\ log[2].body = "own" /\ log[2].nrec = 20

\* C5 as stated: in that case the estimate is a live-data one with sample
\* count 20.
C5_SampleCount_Original ==
    PostalRescue =>
        /\ result.value[1].source = "DVF (agregat API)"
        /\ result.value[1].transaction_count.known
        /\ result.value[1].transaction_count.n = 20

\* C5 amended: in that case the estimate is a live-data one (source: the DVF
\* aggregate), priced at the postal answer's total price over total surface,
\* and its sample count is the marker "N/A": the aggregate answer carries
\* sums, not the number of records.
C5_PostalRescueLive ==
    PostalRescue =>
        /\ IsEstimate(result.value[1])
        /\ result.value[1].source = "DVF (agregat API)"
        /\ result.value[1].price_per_sqm = 3000
        /\ ~result.value[1].transaction_count.known

C5_Witness ==
    /\ PostalRescue
    /\ log[1].body = "empty"
    /\ log[1].base = 1

\* C8: _resolve_insee sends exactly one request per call; it returns None
\* when the answer is a transport error, a non-200 status, a malformed body,
\* an empty list or a first result without code, and the first result's code
\* otherwise; the caller never sees an exception from it.
C8_ResolveOnce ==
    /\ pc = "resolve" => geo = << >>
    /\ (pc # "resolve" /\ result.status # "none") =>
          /\ Len(geo) = 1
          /\ insee_code = IF GeoNotFound(geo[1]) THEN None ELSE geo[1].codes[1]
          /\ (insee_code = None) => (result.status = "returned")
    /\ (result.status = "raised") => insee_code # None

C8_Witness ==
    /\ Len(geo) = 1
    /\ geo[1].kind = "list"
    /\ Len(geo[1].codes) = 2
    /\ geo[1].codes[1] = None
    /\ insee_code = None
    /\ result.status = "returned"

(***************************************************************************)
(* Comparator (price_api.py 771-837).  Numbers are exact: a quotient is    *)
(* the fraction [num, den] with den > 0, compared by cross-multiplication. *)
(***************************************************************************)
Frac(n, d) == [num |-> n, den |-> d]

\* q <= k and q < k, q > k for a fraction q and an integer k
FracLeq(q, k) == q.num <= k * q.den
FracLt(q, k) == q.num < k * q.den
FracGt(q, k) == q.num > k * q.den

\* mutation of Band: the upper edge of each band is excluded
Band_Exclusive(pct) ==
    IF FracLt(pct, -15) THEN "Excellent"
    ELSE IF FracLt(pct, -5) THEN "Bon"
    ELSE IF FracLt(pct, 5) THEN "Correct"
    ELSE IF FracLt(pct, 15) THEN "Eleve"
    ELSE "Tres eleve"

\* the if/elif chain on percentage_difference: the score
Band(pct) ==
    IF FracLeq(pct, -15) THEN "Excellent"
    ELSE IF FracLeq(pct, -5) THEN "Bon"
    ELSE IF FracLeq(pct, 5) THEN "Correct"
    ELSE IF FracLeq(pct, 15) THEN "Eleve"
    ELSE "Tres eleve"

\* the evaluation text that goes with a score
Evaluation(score) ==
    CASE score = "Excellent" -> "Tres bon prix (>15% sous le marche)"
      [] score = "Bon" -> "Bon prix (5-15% sous le marche)"
      [] score = "Correct" -> "Prix dans la moyenne (+-5%)"
      [] score = "Eleve" -> "Prix un peu eleve (5-15% au-dessus)"
      [] OTHER -> "Prix tres eleve (>15% au-dessus)"

\* market_data.get('price_per_sqm', 0)
MarketPrice(market_data) ==
    IF HasField(market_data, "price_per_sqm") THEN market_data.price_per_sqm ELSE 0

\* position of the price against the p10-p90 band, when the estimate has one
RelativePosition(ppsqm, market_data) ==
    IF HasField(market_data, "p10_m2") /\ HasField(market_data, "p90_m2")
       /\ market_data.p10_m2 # 0 /\ market_data.p90_m2 # 0
    THEN IF FracLt(ppsqm, market_data.p10_m2) THEN "Tres sous le marche"
         ELSE IF FracGt(ppsqm, market_data.p90_m2) THEN "Tres au-dessus du marche"
         ELSE "Dans l'intervalle inter-deciles"
    ELSE "None"

\* mutation of compare_property_price: the market price is not validated
compare_property_price_NoMarketCheck(property_price, property_surface, market_data) ==
    IF property_surface <= 0
    THEN [value |-> [error |-> "Surface invalide"], divisors |-> << >>]
    ELSE LET m == MarketPrice(market_data)
             pct == Frac(100 * (property_price - m * property_surface),
                         IF m > 0 THEN property_surface * m ELSE 1)
         IN  [value |-> [percentage_difference |-> pct, score |-> Band(pct)],
              divisors |-> <<property_surface, m>>]

\* compare_property_price: what it returns, and the divisors of the divisions
\* it has performed, in order
compare_property_price(property_price, property_surface, market_data) ==
    IF property_surface <= 0
    THEN [value |-> [error |-> "Surface invalide"], divisors |-> << >>]
    ELSE LET ppsqm == Frac(property_price, property_surface)
             m == MarketPrice(market_data)
         IN  IF m <= 0
             THEN [value |-> [error |-> "Donnees de marche invalides"],
                   divisors |-> <<property_surface>>]
             ELSE LET difference == Frac(property_price - m * property_surface,
                                         property_surface)
                      pct == Frac(100 * difference.num, difference.den * m)
                  IN  [value |->
                         [property_price_per_sqm |-> ppsqm,
                          market_price_per_sqm |-> m,
                          difference |-> difference,
                          percentage_difference |-> pct,
                          evaluation |-> Evaluation(Band(pct)),
                          score |-> Band(pct),
                          market_data |-> market_data,
                          relative_position |-> RelativePosition(ppsqm, market_data)],
                       divisors |-> <<property_surface, m>>]

\* inputs of the comparator check
ComparePrices == {0, 84, 85, 86, 94, 95, 96, 100, 104, 105, 106, 114, 115, 116,
                  169, 170, 171, 229, 230, 231, 200000}
CompareSurfaces == {-1, 0, 1, 2}
CompareMarkets ==
    { ErrNoData, ErrNoInsee,
      [price_per_sqm |-> 0], [price_per_sqm |-> -100],
      [price_per_sqm |-> 100], [price_per_sqm |-> 200],
      [price_per_sqm |-> 100, p10_m2 |-> 90, p90_m2 |-> 110] }

InitCompare ==
    /\ args \in { Some([fn |-> "compare_property_price", property_price |-> p,
                        property_surface |-> a, market_data |-> md]) :
                  p \in ComparePrices, a \in CompareSurfaces, md \in CompareMarkets }
    /\ out = None
    /\ conversation_state = NoConversation

ApplyCompare ==
    /\ args # None
    /\ args[1].fn = "compare_property_price"
    /\ out = None
    /\ out' = Some(compare_property_price(args[1].property_price,
                                          args[1].property_surface,
                                          args[1].market_data))
    /\ UNCHANGED <<args, conversation_state, cacheVars, estVars>>

InitSpecCompare == InitCache /\ InitEst /\ InitCompare

SpecCompare == InitSpecCompare /\ [][ApplyCompare]_vars

\* the arguments and the outcome of the call
CmpPrice == args[1].property_price
CmpArea == args[1].property_surface
CmpMarket == MarketPrice(args[1].market_data)
CmpDone == args # None /\ args[1].fn = "compare_property_price" /\ out # None
CmpValid == CmpArea > 0 /\ CmpMarket > 0

\* 100 * (price - market * area), the numerator of pct_diff over area * market
PctNum == 100 * (CmpPrice - CmpMarket * CmpArea)
PctDen == CmpArea * CmpMarket

\* C6: for valid inputs, pct_diff = (price/area - market) / market * 100 is
\* placed in exactly one of five bands, each boundary in the lower band:
\* pct <= -15 very good, (-15, -5] good, (-5, 5] average, (5, 15] slightly
\* high, > 15 high.
C6_Bands ==
    (CmpDone /\ CmpValid) =>
        LET r == out[1].value IN
        /\ r.percentage_difference = Frac(PctNum, PctDen)
        /\ (r.score = "Excellent") = (PctNum <= -15 * PctDen)
        /\ (r.score = "Bon") = (-15 * PctDen < PctNum /\ PctNum <= -5 * PctDen)
        /\ (r.score = "Correct") = (-5 * PctDen < PctNum /\ PctNum <= 5 * PctDen)
        /\ (r.score = "Eleve") = (5 * PctDen < PctNum /\ PctNum <= 15 * PctDen)
        /\ (r.score = "Tres eleve") = (15 * PctDen < PctNum)
        /\ r.evaluation = Evaluation(r.score)

\* pct_diff = 15 exactly (230 for 2 m2 against 100 per m2) was rated "Eleve"
C6_Witness ==
    /\ CmpDone
    /\ CmpPrice = 230 /\ CmpArea = 2 /\ CmpMarket = 100
    /\ out[1].value.score = "Eleve"

RECURSIVE GCD(_, _)
GCD(a, b) == IF b = 0 THEN a ELSE GCD(b, a % b)

\* a quotient of naturals in lowest terms
Norm(q) == LET g == GCD(q.num, q.den) IN Frac(q.num \div g, q.den \div g)

FracLess(a, b) == a.num * b.den < b.num * a.den
FracAdd(a, b) == Norm(Frac(a.num * b.den + b.num * a.den, a.den * b.den))
\* a * n / d
FracScale(a, n, d) == Norm(Frac(a.num * n, a.den * d))

\* list.sort() on prices per m2
RECURSIVE Insert(_, _)
Insert(q, s) ==
    IF s = << >> THEN <<q>>
    ELSE IF FracLess(Head(s), q) THEN <<Head(s)>> \o Insert(q, Tail(s))
    ELSE <<q>> \o s

RECURSIVE Sort(_)
Sort(s) == IF s = << >> THEN << >> ELSE Insert(Head(s), Sort(Tail(s)))

\* mutation of median: the upper of the two middle elements, never their mean
median_UpperMiddle(s) == s[Len(s) \div 2 + 1]

\* statistics.median of a sorted list
median(s) ==
    LET n == Len(s) IN
    IF n % 2 = 1 THEN s[(n + 1) \div 2]
    ELSE FracScale(FracAdd(s[n \div 2], s[n \div 2 + 1]), 1, 2)

\* mutation of percentile: nearest rank in place of interpolation
percentile_NearestRank(sorted_list, p) ==
    LET n == Len(sorted_list) IN
    IF n = 0 THEN Frac(0, 1)
    ELSE sorted_list[PyRound(Frac((n - 1) * p, 100)) + 1]

\* the percentile helper; K is 100 * k, and lists are indexed from 1
percentile(sorted_list, p) ==
    LET n == Len(sorted_list)
        K == (n - 1) * p
        f == K \div 100
        c == IF f + 1 < n - 1 THEN f + 1 ELSE n - 1
    IN  IF n = 0 THEN Frac(0, 1)
        ELSE IF f = c THEN sorted_list[f + 1]
        ELSE FracAdd(FracScale(sorted_list[f + 1], 100 * c - K, 100),
                     FracScale(sorted_list[c + 1], K - 100 * f, 100))

\* a transaction; type and date are optional, a date is a day number
Tx(price, surface, type, date) ==
    [price |-> price, surface |-> surface, type |-> type, date |-> date]

AcceptedTypes == {"apartment", "house", "Appartement", "Maison"}

\* mutation of Kept: only the price is tested
Kept_PriceOnly(tx) == tx.price > 1000

\* the record survives both `continue` tests of the loop
Kept(tx) ==
    /\ ~(tx.price <= 1000 \/ tx.surface < 8 \/ tx.surface > 300)
    /\ ~(tx.type # None /\ tx.type[1] # "" /\ tx.type[1] \notin AcceptedTypes)

\* the most recent date among the kept records, in the loop's order
RECURSIVE LastDate(_, _)
LastDate(txs, last_date) ==
    IF txs = << >> THEN last_date
    ELSE LET d == Head(txs).date
         IN  LastDate(Tail(txs),
                      IF d # None /\ (last_date = None \/ d[1] > last_date[1])
                      THEN d ELSE last_date)

RECURSIVE PricesM2(_)
PricesM2(txs) ==
    IF txs = << >> THEN << >>
    ELSE <<Norm(Frac(Head(txs).price, Head(txs).surface))>> \o PricesM2(Tail(txs))

\* mutation of _compute_stats: no survivor gives a stats object with count 0
_compute_stats_ZeroCount(transactions) ==
    LET kept == SelectSeq(transactions, Kept)
        prices_m2 == Sort(PricesM2(kept))
    IN  Some([median_m2 |-> IF prices_m2 = << >> THEN 0 ELSE PyRound(median(prices_m2)),
              p10_m2 |-> PyRound(percentile(prices_m2, 10)),
              p90_m2 |-> PyRound(percentile(prices_m2, 90)),
              count |-> Len(prices_m2),
              period_months |-> None,
              last_tx_date |-> LastDate(kept, None)])

\* _compute_stats: None stands for the empty dict; a missing argument is the
\* empty list (`transactions or []`)
_compute_stats(transactions) ==
    LET kept == SelectSeq(transactions, Kept)
        prices_m2 == Sort(PricesM2(kept))
    IN  IF prices_m2 = << >> THEN None
        ELSE Some([median_m2 |-> PyRound(median(prices_m2)),
                   p10_m2 |-> PyRound(percentile(prices_m2, 10)),
                   p90_m2 |-> PyRound(percentile(prices_m2, 90)),
                   count |-> Len(prices_m2),
                   period_months |-> None,
                   last_tx_date |-> LastDate(kept, None)])

MaxTx == 2

TxRecords ==
    { Tx(p, s, None, None) : p \in {500, 1000, 1001, 200000}, s \in {5, 8, 50, 300, 301} }
    \cup { Tx(200000, s, Some(t), Some(d)) :
           s \in {50, 300}, t \in {"Local", "Maison", ""}, d \in {1, 2} }
    \cup { Tx(500, 50, None, Some(2)), Tx(1001, 8, Some("apartment"), None) }

InitStats ==
    /\ args \in { Some([fn |-> "_compute_stats", transactions |-> txs]) :
                  txs \in UNION { [1..n -> TxRecords] : n \in 0..MaxTx } }
    /\ out = None
    /\ conversation_state = NoConversation

ApplyStats ==
    /\ args # None
    /\ args[1].fn = "_compute_stats"
    /\ out = None
    /\ out' = Some(_compute_stats(args[1].transactions))
    /\ UNCHANGED <<args, conversation_state, cacheVars, estVars>>

InitSpecStats == InitCache /\ InitEst /\ InitStats

SpecStats == InitSpecStats /\ [][ApplyStats]_vars

StatsDone == args # None /\ args[1].fn = "_compute_stats" /\ out # None
StatsTxs == args[1].transactions
StatsCount == IF out[1] = None THEN 0 ELSE out[1][1].count

\* the plausibility filter of the statistics engine
Plausible(tx) == tx.price > 1000 /\ 8 <= tx.surface /\ tx.surface <= 300
\* the record's type is absent, empty or one of the four accepted names
TypeAccepted(tx) == tx.type = None \/ tx.type[1] \in AcceptedTypes \cup {""}
Subject(tx) == tx.price = 200000 /\ tx.surface = 50

MaxLen == 5
PercentileValues == {100, 200, 300, 400, 500}

IsSortedInts(s) == \A i \in 1..(Len(s) - 1) : s[i] <= s[i + 1]
SortedLists ==
    { s \in UNION { [1..n -> PercentileValues] : n \in 1..MaxLen } : IsSortedInts(s) }

InitPercentile ==
    /\ args \in { Some([fn |-> "percentile", sorted_list |-> s, p |-> p]) :
                  s \in SortedLists, p \in 0..100 }
    /\ out = None
    /\ conversation_state = NoConversation

ApplyPercentile ==
    /\ args # None
    /\ args[1].fn = "percentile"
    /\ out = None
    /\ out' = Some(percentile([i \in DOMAIN args[1].sorted_list |->
                                 Frac(args[1].sorted_list[i], 1)], args[1].p))
    /\ UNCHANGED <<args, conversation_state, cacheVars, estVars>>

InitSpecPercentile == InitCache /\ InitEst /\ InitPercentile

SpecPercentile == InitSpecPercentile /\ [][ApplyPercentile]_vars

PctDone == args # None /\ args[1].fn = "percentile" /\ out # None
PctList == args[1].sorted_list

\* C10: for a non-empty sorted list s of length n and p in 0..100 the helper
\* returns s[floor k] + (k - floor k) * (s[ceil k] - s[floor k]) with
\* k = (n-1) * p / 100 (s indexed from 0); for [100, 200, 300, 400, 500] it
\* gives 140 at p = 10 and 460 at p = 90.
C10_LinearInterpolation ==
    PctDone =>
        LET n == Len(PctList)
            K == (n - 1) * args[1].p
            fl == K \div 100
            ce == IF K % 100 = 0 THEN fl ELSE fl + 1
            lo == PctList[fl + 1]
            hi == PctList[ce + 1]
        IN  /\ out[1].den > 0
            /\ out[1].num * 100 = (100 * lo + (K - 100 * fl) * (hi - lo)) * out[1].den
            /\ (PctList = <<100, 200, 300, 400, 500>> /\ args[1].p = 10)
                 => out[1] = Frac(140, 1)
            /\ (PctList = <<100, 200, 300, 400, 500>> /\ args[1].p = 90)
                 => out[1] = Frac(460, 1)

\* the 90th percentile of [100, 200, 300, 400, 500] was computed as 460
C10_Witness ==
    /\ PctDone
    /\ PctList = <<100, 200, 300, 400, 500>>
    /\ args[1].p = 90
    /\ out[1] = Frac(460, 1)

(***************************************************************************)
(* _compute_stats on longer lists of records with distinct prices per m2.  *)
(***************************************************************************)
MaxMedianTx == 4

\* 4000, 3001, 666.67 and 125.125 euros per m2, and a record that is dropped
MedianRecords ==
    { Tx(200000, 50, None, None), Tx(150050, 50, Some("Maison"), Some(2)),
      Tx(200000, 300, None, Some(1)), Tx(1001, 8, Some("apartment"), None),
      Tx(500, 50, None, None) }

InitMedian ==
    /\ args \in { Some([fn |-> "_compute_stats", transactions |-> txs]) :
                  txs \in UNION { [1..n -> MedianRecords] : n \in 0..MaxMedianTx } }
    /\ out = None
    /\ conversation_state = NoConversation

InitSpecMedian == InitCache /\ InitEst /\ InitMedian

SpecMedian == InitSpecMedian /\ [][ApplyStats]_vars

\* the prices per m2 of the surviving records, in increasing order
Surviving == Sort(PricesM2(SelectSeq(StatsTxs, LAMBDA tx : Plausible(tx) /\ TypeAccepted(tx))))

\* C11: the median of _compute_stats is, before its rounding to an integer,
\* the middle order statistic of the surviving prices per m2 when their
\* number is odd and the mean of the two middle ones when it is even.
C11_Median ==
    (StatsDone /\ Surviving # << >>) =>
        LET n == Len(Surviving)
            mid == IF n % 2 = 1 THEN Surviving[(n + 1) \div 2]
                   ELSE LET a == Surviving[n \div 2]
                            b == Surviving[n \div 2 + 1]
                        IN  Frac(a.num * b.den + b.num * a.den, 2 * a.den * b.den)
        IN  /\ out[1] # None
            /\ out[1][1].median_m2 = PyRound(mid)

\* four surviving prices 125.125, 666.67, 3001, 4000: the median is the mean
\* of 666.67 and 3001, rounded
C11_Witness ==
    /\ StatsDone
    /\ Len(Surviving) = 4
    /\ Surviving[2] = Frac(2000, 3) /\ Surviving[3] = Frac(3001, 1)
    /\ out[1] # None
    /\ out[1][1].median_m2 = 1834

reference_prices ==
    <<
      [key |-> <<"p", "a", "r", "i", "s">>,
       apartment |-> 10800, house |-> 12500, reliability |-> 95],
      [key |-> <<"l", "y", "o", "n">>,
       apartment |-> 5100, house |-> 5800, reliability |-> 90],
      [key |-> <<"m", "a", "r", "s", "e", "i", "l", "l", "e">>,
       apartment |-> 3800, house |-> 4200, reliability |-> 88],
      [key |-> <<"t", "o", "u", "l", "o", "u", "s", "e">>,
       apartment |-> 4100, house |-> 4500, reliability |-> 87],
      [key |-> <<"n", "i", "c", "e">>,
       apartment |-> 5500, house |-> 6800, reliability |-> 89],
      [key |-> <<"n", "a", "n", "t", "e", "s">>,
       apartment |-> 4200, house |-> 4800, reliability |-> 86],
      [key |-> <<"s", "t", "r", "a", "s", "b", "o", "u", "r", "g">>,
       apartment |-> 3500, house |-> 4000, reliability |-> 84],
      [key |-> <<"m", "o", "n", "t", "p", "e", "l", "l", "i", "e", "r">>,
       apartment |-> 4000, house |-> 4600, reliability |-> 85],
      [key |-> <<"b", "o", "r", "d", "e", "a", "u", "x">>,
       apartment |-> 4800, house |-> 5400, reliability |-> 88],
      [key |-> <<"l", "i", "l", "l", "e">>,
       apartment |-> 3300, house |-> 3800, reliability |-> 83],
      [key |-> <<"r", "e", "n", "n", "e", "s">>,
       apartment |-> 3900, house |-> 4400, reliability |-> 84],
      [key |-> <<"r", "e", "i", "m", "s">>,
       apartment |-> 2400, house |-> 2800, reliability |-> 78],
      [key |-> <<"t", "o", "u", "l", "o", "n">>,
       apartment |-> 3600, house |-> 4200, reliability |-> 80],
      [key |-> <<"g", "r", "e", "n", "o", "b", "l", "e">>,
       apartment |-> 3700, house |-> 4300, reliability |-> 82],
      [key |-> <<"d", "i", "j", "o", "n">>,
       apartment |-> 2900, house |-> 3400, reliability |-> 79],
      [key |-> <<"a", "n", "g", "e", "r", "s">>,
       apartment |-> 3100, house |-> 3600, reliability |-> 80],
      [key |-> <<"n", "i", "m", "e", "s">>,
       apartment |-> 2700, house |-> 3200, reliability |-> 77],
      [key |-> <<"v", "i", "l", "l", "e", "u", "r", "b", "a", "n", "n", "e">>,
       apartment |-> 4800, house |-> 5400, reliability |-> 85],
      [key |-> <<"c", "l", "e", "r", "m", "o", "n", "t", "-", "f", "e", "r", "r", "a", "n", "d">>,
       apartment |-> 2500, house |-> 3000, reliability |-> 76],
      [key |-> <<"a", "i", "x", "-", "e", "n", "-", "p", "r", "o", "v", "e", "n", "c", "e">>,
       apartment |-> 5200, house |-> 6500, reliability |-> 87],
      [key |-> <<"b", "r", "e", "s", "t">>,
       apartment |-> 2600, house |-> 3100, reliability |-> 78],
      [key |-> <<"t", "o", "u", "r", "s">>,
       apartment |-> 3000, house |-> 3500, reliability |-> 79],
      [key |-> <<"a", "m", "i", "e", "n", "s">>,
       apartment |-> 2300, house |-> 2700, reliability |-> 75],
      [key |-> <<"l", "i", "m", "o", "g", "e", "s">>,
       apartment |-> 1900, house |-> 2400, reliability |-> 72],
      [key |-> <<"a", "n", "n", "e", "c", "y">>,
       apartment |-> 5800, house |-> 7200, reliability |-> 88],
      [key |-> <<"_", "d", "e", "f", "a", "u", "l", "t">>,
       apartment |-> 3200, house |-> 3600, reliability |-> 65]
    >>

\* str.lower() on one character (ASCII letters)
LowerChar(ch) ==
    CASE
         ch = "A" -> "a"
      [] ch = "B" -> "b"
      [] ch = "C" -> "c"
      [] ch = "D" -> "d"
      [] ch = "E" -> "e"
      [] ch = "F" -> "f"
      [] ch = "G" -> "g"
      [] ch = "H" -> "h"
      [] ch = "I" -> "i"
      [] ch = "J" -> "j"
      [] ch = "K" -> "k"
      [] ch = "L" -> "l"
      [] ch = "M" -> "m"
      [] ch = "N" -> "n"
      [] ch = "O" -> "o"
      [] ch = "P" -> "p"
      [] ch = "Q" -> "q"
      [] ch = "R" -> "r"
      [] ch = "S" -> "s"
      [] ch = "T" -> "t"
      [] ch = "U" -> "u"
      [] ch = "V" -> "v"
      [] ch = "W" -> "w"
      [] ch = "X" -> "x"
      [] ch = "Y" -> "y"
      [] ch = "Z" -> "z"
      [] OTHER -> ch

Lower(str) == [i \in DOMAIN str |-> LowerChar(str[i])]

\* str.strip(): blanks removed at both ends
RECURSIVE LStrip(_)
LStrip(str) == IF str # << >> /\ Head(str) = " " THEN LStrip(Tail(str)) ELSE str

RECURSIVE RStrip(_)
RStrip(str) ==
    IF str # << >> /\ str[Len(str)] = " " THEN RStrip(SubSeq(str, 1, Len(str) - 1)) ELSE str

Strip(str) == RStrip(LStrip(str))

\* a in b, for strings
IsSubstring(a, b) ==
    \E i \in 0..(Len(b) - Len(a)) : SubSeq(b, i + 1, i + Len(a)) = a

_default == <<"_", "d", "e", "f", "a", "u", "l", "t">>

\* property_type.lower() on the property types used here
LowerType(t) ==
    CASE t = "Maison" -> "maison"
      [] t = "MAISON" -> "maison"
      [] t = "Appartement" -> "appartement"
      [] OTHER -> t

\* the normalised category
PropType(property_type) ==
    IF LowerType(property_type) \in {"maison", "house"} THEN "house"
    ELSE "apartment"

\* data.get(prop_type, ...) on a row of the table: every row has both prices
RowPrice(row, prop_type) == IF prop_type = "house" THEN row.house ELSE row.apartment

\* index of the exact row, 0 when there is none
ExactIndex(city_normalized) ==
    IF \E i \in DOMAIN reference_prices : reference_prices[i].key = city_normalized
    THEN CHOOSE i \in DOMAIN reference_prices : reference_prices[i].key = city_normalized
    ELSE 0

\* mutation of PartialRows: only a key contained in the query matches
PartialRows_KeyInQuery(city_normalized) ==
    { i \in DOMAIN reference_prices :
        /\ reference_prices[i].key # _default
        /\ IsSubstring(reference_prices[i].key, city_normalized) }

\* the rows the partial-match loop would stop at
PartialRows(city_normalized) ==
    { i \in DOMAIN reference_prices :
        /\ reference_prices[i].key # _default
        /\ \/ IsSubstring(reference_prices[i].key, city_normalized)
           \/ IsSubstring(city_normalized, reference_prices[i].key) }

Min(S) == CHOOSE x \in S : \A y \in S : x <= y
Max2(a, b) == IF a >= b THEN a ELSE b

\* get_price_estimate; the source label is its fixed text and the name put
\* into it (title-cased by the code)
get_price_estimate(city, property_type) ==
    LET city_normalized == Strip(Lower(city))
        prop_type == PropType(property_type)
        e == ExactIndex(city_normalized)
        part == PartialRows(city_normalized)
    IN  IF e # 0
        THEN [price_per_sqm |-> RowPrice(reference_prices[e], prop_type),
              source |-> [label |-> "Donnees DVF 2024 - ", name |-> city, suffix |-> ""],
              reliability_score |-> reference_prices[e].reliability,
              data_period |-> "Annee 2024"]
        ELSE IF part # {}
        THEN LET row == reference_prices[Min(part)]
             IN  [price_per_sqm |-> RowPrice(row, prop_type),
                  source |-> [label |-> "Donnees DVF 2024 - ", name |-> row.key,
                              suffix |-> " (estimation)"],
                  reliability_score |-> Max2(50, row.reliability - 10),
                  data_period |-> "Annee 2024"]
        ELSE LET default_data == reference_prices[ExactIndex(_default)]
             IN  [price_per_sqm |-> RowPrice(default_data, prop_type),
                  source |-> [label |-> "Moyenne nationale DVF 2024", name |-> << >>,
                              suffix |-> ""],
                  reliability_score |-> default_data.reliability,
                  data_period |-> "Annee 2024"]

MaxCityLen == 3
CityAlphabet == {"n", "i", "c", "e", " ", "N", "x"}

\* "Paris", "Paris 15", "  LYON ", "lyon villeurbanne", "aix", "es", "",
\* "_default", "_def", "Surgeres", "nice ville", "x"
NamedCities ==
    {
      <<"P", "a", "r", "i", "s">>,
      <<"P", "a", "r", "i", "s", " ", "1", "5">>,
      <<" ", " ", "L", "Y", "O", "N", " ">>,
      <<"l", "y", "o", "n", " ", "v", "i", "l", "l", "e", "u", "r", "b", "a", "n", "n", "e">>,
      <<"a", "i", "x">>,
      <<"e", "s">>,
      <<>>,
      <<"_", "d", "e", "f", "a", "u", "l", "t">>,
      <<"_", "d", "e", "f">>,
      <<"S", "u", "r", "g", "e", "r", "e", "s">>,
      <<"n", "i", "c", "e", " ", "v", "i", "l", "l", "e">>,
      <<"x">>
    }

CityQueries == NamedCities \cup UNION { [1..n -> CityAlphabet] : n \in 0..MaxCityLen }
PropertyTypes == {"house", "Maison", "MAISON", "apartment", "Appartement", "studio", "loft"}

InitReference ==
    /\ args \in { Some([fn |-> "get_price_estimate", city |-> c, property_type |-> t]) :
                  c \in CityQueries, t \in PropertyTypes }
    /\ out = None
    /\ conversation_state = NoConversation

ApplyReference ==
    /\ args # None
    /\ args[1].fn = "get_price_estimate"
    /\ out = None
    /\ out' = Some(get_price_estimate(args[1].city, args[1].property_type))
    /\ UNCHANGED <<args, conversation_state, cacheVars, estVars>>

InitSpecReference == InitCache /\ InitEst /\ InitReference

SpecReference == InitSpecReference /\ [][ApplyReference]_vars

RefDone == args # None /\ args[1].fn = "get_price_estimate" /\ out # None
\* the query as the table is searched with it
RefQuery == Strip(Lower(args[1].city))
RefHouse == args[1].property_type \in {"house", "Maison", "MAISON"}
RefKeys == { reference_prices[i].key : i \in DOMAIN reference_prices }
\* key k matches the query by containment, one way or the other
RefContains(k) == IsSubstring(k, RefQuery) \/ IsSubstring(RefQuery, k)
RefPriceOf(row) == IF RefHouse THEN row.house ELSE row.apartment

\* C13: the price is (1) that of the row whose key equals the lower-cased,
\* trimmed name; (2) otherwise that of the first row in table order, the
\* default row excluded, whose key contains the query or is contained in it;
\* (3) otherwise the default of the category, 3200 for an apartment and 3600
\* for a house.  The source label tells which rule was applied.
C13_LookupPriority ==
    RefDone =>
        LET r == out[1] IN
        IF RefQuery \in RefKeys
        THEN /\ \E i \in DOMAIN reference_prices :
                  /\ reference_prices[i].key = RefQuery
                  /\ r.price_per_sqm = RefPriceOf(reference_prices[i])
             /\ r.source.suffix = "" /\ r.source.name = args[1].city
        ELSE IF \E i \in DOMAIN reference_prices :
                   reference_prices[i].key # _default /\ RefContains(reference_prices[i].key)
        THEN \E i \in DOMAIN reference_prices :
                  /\ reference_prices[i].key # _default
                  /\ RefContains(reference_prices[i].key)
                  /\ \A j \in 1..(i - 1) :
                        reference_prices[j].key = _default
                        \/ ~RefContains(reference_prices[j].key)
                  /\ r.price_per_sqm = RefPriceOf(reference_prices[i])
                  /\ r.source.suffix = " (estimation)"
                  /\ r.source.name = reference_prices[i].key
        ELSE /\ r.price_per_sqm = IF RefHouse THEN 3600 ELSE 3200
             /\ r.source.label = "Moyenne nationale DVF 2024"

\* "es" for a house: no exact row; nantes is the first of the rows whose key
\* contains "es" (rennes, nimes and limoges come later)
C13_Witness ==
    /\ RefDone
    /\ args[1].city = <<"e", "s">>
    /\ args[1].property_type = "Maison"
    /\ out[1].price_per_sqm = 4800
    /\ out[1].source.name = <<"n", "a", "n", "t", "e", "s">>

(***************************************************************************)
(* Properties of the fetcher, read on the log of the endpoint in progress  *)
(***************************************************************************)
StageRank(stage) ==
    CASE stage = "commune" -> 1
      [] stage = "postal" -> 2
      [] stage = "name" -> 3
      [] OTHER -> 4

\* the strategies whose input the running call has
AvailableStages ==
    {"commune", "wide"}
    \cup (IF req.postal_code # None THEN {"postal"} ELSE {})
    \cup (IF req.city # "" THEN {"name"} ELSE {})

Attempted(stage) == \E i \in DOMAIN log : log[i].stage = stage

\* the last endpoint has been given up without sufficient data
FetcherGaveUp == pc = "package" /\ agg = None

\* C14: on an endpoint the strategies are attempted in the order commune
\* code, postal code, place name, widened window, and a strategy whose input
\* is available is skipped only when an earlier one returned sufficient
\* data: when the fetcher gives up, every available strategy was attempted.
C14_StrategyOrder ==
    /\ \A i \in 1..(Len(log) - 1) : StageRank(log[i].stage) <= StageRank(log[i + 1].stage)
    /\ FetcherGaveUp => \A stage \in AvailableStages : Attempted(stage)

\* the refine.<field> of the request sent at a position of do_request
Refine(stage, idx) ==
    CASE stage = "postal" -> "code_postal"
      [] stage = "name" -> refine_fields[idx]
      [] OTHER -> "code_commune"

\* the request of log entry i was answered (200 or not) and nothing was summed
GaveNothing(i) == log[i].status \in {"ok", "non200"} /\ log[i].body \in {"empty", "none"}

\* every 24-month request of the endpoint was answered and gave nothing
ChainGaveNothing ==
    \A i \in DOMAIN log : log[i].window = Months => GaveNothing(i)

EntryBody(e) ==
    IF e.status = "ok"
    THEN (CHOOSE b \in Bodies(insee_code[1]) : b.name = e.body).points
    ELSE << >>
OwnPoints(e) ==
    SelectSeq(EntryBody(e),
              LAMBDA pt : InSeq(pt.x, _expand_insee_to_query(insee_code[1])))

\* what entry e may add to the totals: in the postal-code and place-name
\* stages only the points of the resolved commune
Counted(e) == IF e.stage \in {"postal", "name"} THEN OwnPoints(e) ELSE EntryBody(e)

RECURSIVE LogTotal(_, _)
LogTotal(entries, serie) ==
    IF entries = << >> THEN 0
    ELSE FAdd(SumPoints(Counted(Head(entries)), serie, FALSE, << >>),
              LogTotal(Tail(entries), serie))

\* C16: in the postal-code and place-name fallbacks only the points whose
\* commune code is one of the expanded codes are summed: the running totals,
\* and so the returned price, are those of the own-commune points of these
\* answers (and of all the points of the commune-code answers).
C16_CodePostFilter ==
    (pc \in {"fetch", "package"} /\ log # << >> /\ log[1].base = pos.base) =>
        /\ totals = << LogTotal(log, "valeur_fonciere"), LogTotal(log, "surface_reelle_bati") >>
        /\ (pc = "package" /\ agg # None) => agg[1].avg_m2 = FDiv(totals[1], totals[2])

\* the postal-code answer held 6000 for 2 m2 in the resolved commune and
\* 9000 for 1 m2 in another one: the price is 3000, not 5000
C16_Witness ==
    /\ result.status = "returned"
    /\ Len(log) = 2
    /\ log[1].stage = "commune" /\ log[1].body = "empty"
    /\ log[2].stage = "postal" /\ log[2].body = "mixed"
    /\ IsEstimate(result.value[1])
    /\ result.value[1].price_per_sqm = 3000

(***************************************************************************)
(* _expand_insee_to_query on its own                                       *)
(***************************************************************************)
\* the three city codes, their sub-area codes, the neighbours of all these,
\* and codes that are not five digits
ExpandCodes ==
    { ToString(n) : n \in (75050..75060) \cup (75100..75121) \cup (69120..69126)
                          \cup (69380..69390) \cup (13050..13060) \cup (13200..13217) }
    \cup {"17434", "2A004", "", "75", "075056", "75056 "}

InitExpand ==
    /\ args \in { Some([fn |-> "_expand_insee_to_query", insee_code |-> c]) :
                  c \in ExpandCodes }
    /\ out = None
    /\ conversation_state = NoConversation

ApplyExpand ==
    /\ args # None
    /\ args[1].fn = "_expand_insee_to_query"
    /\ out = None
    /\ out' = Some(_expand_insee_to_query(args[1].insee_code))
    /\ UNCHANGED <<args, conversation_state, cacheVars, estVars>>

InitSpecExpand == InitCache /\ InitEst /\ InitExpand

SpecExpand == InitSpecExpand /\ [][ApplyExpand]_vars

ExpandDone == args # None /\ args[1].fn = "_expand_insee_to_query" /\ out # None

\* the codes first + 1 .. first + n, as strings
CodesAfter(first, n) == [i \in 1..n |-> ToString(first + i)]

\* C17: 75056 maps to 75101..75120 (20 codes), 69123 to 69381..69389 (9),
\* 13055 to 13201..13216 (16), every other code c to [c], and the codes
\* returned are pairwise distinct.
C17_Expansion ==
    ExpandDone =>
        LET c == args[1].insee_code
            r == out[1]
        IN  /\ r = CASE c = "75056" -> CodesAfter(75100, 20)
                     [] c = "69123" -> CodesAfter(69380, 9)
                     [] c = "13055" -> CodesAfter(13200, 16)
                     [] OTHER -> <<c>>
            /\ Len(r) = CASE c = "75056" -> 20
                          [] c = "69123" -> 9
                          [] c = "13055" -> 16
                          [] OTHER -> 1
            /\ \A i, j \in DOMAIN r : i # j => r[i] # r[j]

\* Paris was expanded: 20 codes, from 75101 to 75120
C17_Witness ==
    /\ ExpandDone
    /\ args[1].insee_code = "75056"
    /\ Len(out[1]) = 20
    /\ out[1][1] = "75101" /\ out[1][9] = "75109" /\ out[1][20] = "75120"

(***************************************************************************)
(* Properties of the cache tiers                                           *)
(***************************************************************************)
\* e is an entry written less than 24 h before now
Fresh(e) == e.kind = "json" /\ now - e.ts < 86400

\* C18: a _cache_get(k) that finds a live entry in memory answers from it
\* whatever the file holds and changes nothing; otherwise a live file entry
\* is returned and copied into memory as it is, write timestamp included, so
\* that it is served from memory afterwards and expires 24 h after its
\* write; otherwise the read is a miss and memory is unchanged.
C18_DiskRepopulation ==
    [][\A k \in Keys :
          CacheGet(k) =>
              LET m == mem_cache[k]
                  f == disk[_safe_key(k)]
              IN  IF Fresh(m)
                  THEN ret'.val = Some(m.data) /\ mem_cache' = mem_cache
                  ELSE IF Fresh(f)
                  THEN /\ ret'.val = Some(f.data)
                       /\ mem_cache' = [mem_cache EXCEPT ![k] = f]
                       /\ mem_cache'[k].ts = f.ts
                  ELSE ret'.val = None /\ mem_cache' = mem_cache]_vars

\* after a restart a read was served from the file, whose entry is older
\* than the last write of the key (that write did not reach the file), and
\* memory now holds the file's entry with its timestamp
C18_Witness ==
    \E k \in Keys :
        /\ ret.op = "get" /\ ret.key = Some(k) /\ ret.val # None
        /\ mem_cache[k].kind = "json"
        /\ mem_cache[k] = disk[_safe_key(k)]
        /\ lastSet[k] # None /\ lastSet[k][1] # mem_cache[k]
        /\ mem_cache[k].ts < now
        /\ ret.val = Some(mem_cache[k].data)

(***************************************************************************)
(* Concurrent calls of _cache_set and _cache_get on one PriceAPI           *)
(* (price_api.py 544-573): no lock is taken, so the statements of the      *)
(* calls interleave.  args[t] is the call of thread t and the statement it *)
(* is at, out[t] what its _cache_get returned.                             *)
(***************************************************************************)
NThreads == 3
Threads == 1..NThreads

\* the file after open(fpath, 'w') and before the first byte is written
Truncated == [kind |-> "truncated"]

IdleCall == [pc |-> "idle", op |-> "none", key |-> None, payload |-> None]

\* _cache_set, line 567-568: payload = {'_ts': time.time(), 'data': data};
\* self._mem_cache[key] = payload
SetMem(t, key, data) ==
    /\ args[t].pc = "idle"
    /\ mem_cache' = [mem_cache EXCEPT ![key] = Payload(now, data)]
    /\ args' = [args EXCEPT ![t] = [pc |-> "open", op |-> "set", key |-> Some(key),
                                    payload |-> Some(Payload(now, data))]]
    /\ UNCHANGED <<out, conversation_state, now, ticks, disk, lastSet, sets, ret>>
    /\ UNCHANGED estVars

\* _cache_set, line 570: open(fpath, 'w') empties the file
SetOpen(t) ==
    /\ args[t].pc = "open"
    /\ disk' = [disk EXCEPT ![_safe_key(args[t].key[1])] = Truncated]
    /\ args' = [args EXCEPT ![t].pc = "dump"]
    /\ UNCHANGED <<out, conversation_state, now, ticks, mem_cache, lastSet, sets, ret>>
    /\ UNCHANGED estVars

\* _cache_set, line 571: json.dump and close write the text at offset 0.  On
\* a file that another writer has filled since this one emptied it, the text
\* replaces the other one when it is at least as long, and leaves the tail
\* of the longer text behind it otherwise (mixed: not JSON).
SetDump(t, mixed) ==
    /\ args[t].pc = "dump"
    /\ LET f == _safe_key(args[t].key[1])
       IN  /\ mixed => disk[f] # Truncated
           /\ disk' = [disk EXCEPT ![f] = IF mixed THEN Corrupt ELSE args[t].payload[1]]
    /\ args' = [args EXCEPT ![t].pc = "done"]
    /\ UNCHANGED <<out, conversation_state, now, ticks, mem_cache, lastSet, sets, ret>>
    /\ UNCHANGED estVars

\* _cache_get, line 549-551: the memory tier
GetMem(t, key) ==
    /\ args[t].pc = "idle"
    /\ IF mem_cache[key].kind = "json" /\ IsLive(now, mem_cache[key])
       THEN /\ out' = [out EXCEPT ![t] = Some(mem_cache[key].data)]
            /\ args' = [args EXCEPT ![t] = [pc |-> "done", op |-> "get", key |-> Some(key),
                                            payload |-> None]]
       ELSE /\ args' = [args EXCEPT ![t] = [pc |-> "file", op |-> "get", key |-> Some(key),
                                            payload |-> None]]
            /\ UNCHANGED out
    /\ UNCHANGED conversation_state
    /\ UNCHANGED cacheVars
    /\ UNCHANGED estVars

\* _cache_get, line 553-557: the file is read; a missing file is skipped and
\* an empty or mixed one makes json.load raise (caught: the read is a miss)
GetFile(t) ==
    /\ args[t].pc = "file"
    /\ LET f == disk[_safe_key(args[t].key[1])]
       IN  IF f.kind = "json" /\ IsLive(now, f)
           THEN args' = [args EXCEPT ![t].pc = "store", ![t].payload = Some(f)]
           ELSE args' = [args EXCEPT ![t].pc = "done"]
    /\ UNCHANGED <<out, conversation_state>>
    /\ UNCHANGED cacheVars
    /\ UNCHANGED estVars

\* _cache_get, line 558-559: self._mem_cache[key] = payload; return its data
GetStore(t) ==
    /\ args[t].pc = "store"
    /\ mem_cache' = [mem_cache EXCEPT ![args[t].key[1]] = args[t].payload[1]]
    /\ out' = [out EXCEPT ![t] = Some(args[t].payload[1].data)]
    /\ args' = [args EXCEPT ![t].pc = "done"]
    /\ UNCHANGED conversation_state
    /\ UNCHANGED <<now, ticks, disk, lastSet, sets, ret>>
    /\ UNCHANGED estVars

InitSpecConcurrent ==
    /\ InitCache
    /\ InitEst
    /\ args = [t \in Threads |-> IdleCall]
    /\ out = [t \in Threads |-> None]
    /\ conversation_state = NoConversation

NextConcurrent ==
    \E t \in Threads :
        \/ \E key \in Keys, data \in Vals : SetMem(t, key, data)
        \/ SetOpen(t)
        \/ \E mixed \in BOOLEAN : SetDump(t, mixed)
        \/ \E key \in Keys : GetMem(t, key)
        \/ GetFile(t)
        \/ GetStore(t)

SpecConcurrent == InitSpecConcurrent /\ [][NextConcurrent]_vars

\* the writes of key k that have completed, and whether one is in progress
Writers(k) == { t \in Threads : args[t].op = "set" /\ args[t].key = Some(k) }
Quiet(k) == \A t \in Threads : args[t].key = Some(k) => args[t].pc = "done"

\* C19: under any interleaving, a read returns None or the complete value of
\* some write, and once every call on a key has completed the memory tier
\* and the file hold the same entry for it, the entry of one of its writers.
C19_ConcurrentCache ==
    /\ \A t \in Threads :
          (args[t].op = "get" /\ out[t] # None) =>
              \E w \in Writers(args[t].key[1]) : out[t] = Some(args[w].payload[1].data)
    /\ \A k \in Keys :
          (Quiet(k) /\ Writers(k) # {}) =>
              /\ mem_cache[k] = disk[_safe_key(k)]
              /\ \E w \in Writers(k) : mem_cache[k] = args[w].payload[1]

(***************************************************************************)
(* The cache with keys whose text differs only by ':', '/' or '_'.  A key  *)
(* is the sequence of its fragments, each of these three characters being  *)
(* a fragment of its own, so that two sequences are equal exactly when the *)
(* two strings are.                                                        *)
(***************************************************************************)
\* f"agg:{insee_code}:{property_type}:{months}" for the property types
\* "a_b" and "a/b", and for "house"
AliasKeys ==
    { <<"agg", ":", "17434", ":", "a", sep, "b", ":", "24">> : sep \in {"_", "/"} }
    \cup { CacheKey("17434", "house", "24") }

AliasFiles == { _safe_key(k) : k \in AliasKeys }

InitSpecAlias ==
    /\ now = 0
    /\ ticks = 0
    /\ mem_cache = [k \in AliasKeys |-> Absent]
    /\ disk = [f \in AliasFiles |-> Absent]
    /\ lastSet = [k \in AliasKeys |-> None]
    /\ sets = 0
    /\ ret = [op |-> "none", key |-> None, val |-> None, at |-> 0]
    /\ InitEst
    /\ InitFn

NextAlias ==
    \/ \E d \in ClockSteps : Tick(d)
    \/ \E k \in AliasKeys, v \in Vals, o \in WriteOutcomes : CacheSet(k, v, o)
    \/ \E k \in AliasKeys : CacheGet(k)
    \/ Restart

SpecAlias == InitSpecAlias /\ [][NextAlias]_vars

\* C20: two distinct keys have two distinct files, so a _cache_set(k1, v)
\* leaves what _cache_get(k2) would return as it was, for every other key k2.
C20_OwnFile ==
    [][\A k1, k2 \in AliasKeys :
          (k1 # k2 /\ sets' = sets + 1 /\ ret'.key = Some(k1)) =>
              /\ _safe_key(k1) # _safe_key(k2)
              /\ _cache_get(mem_cache', disk', now', k2)[1]
                   = _cache_get(mem_cache, disk, now, k2)[1]]_vars

(***************************************************************************)
(* Further properties of the estimator                                     *)
(***************************************************************************)
\* the running call has returned an estimate built from the dataset's answers
LiveEstimateReturned ==
    /\ result.status = "returned"
    /\ cached = None
    /\ IsEstimate(result.value[1])

\* C21: a live-data estimate returned by get_local_prices carries a
\* confidence score (a number, derived from the sample count).
C21_ConfidenceScore ==
    LiveEstimateReturned => result.value[1].confidence # None

\* the request of log entry i failed: transport error, timeout or non-200
Failed(i) == log[i].status \in {"exc", "non200"}

\* the request of log entry i failed or was answered with no data
FailedOrEmpty(i) == Failed(i) \/ (log[i].status = "ok" /\ log[i].body = "empty")

\* C22: a transport error, a timeout or a non-200 status of one request of
\* the fetcher counts as an empty answer of that request only: it does not
\* reach the caller, the request is not sent again, and every remaining
\* strategy of the endpoint and the mirror endpoint are still tried.
C22_FailureIsEmptyAttempt ==
    /\ (\E i \in DOMAIN log : Failed(i)) => result.status # "raised"
    /\ \A i \in 1..(Len(log) - 1) :
          Failed(i) => <<log[i].stage, log[i].idx>> # <<log[i + 1].stage, log[i + 1].idx>>
    /\ (FetcherGaveUp /\ \A i \in DOMAIN log : FailedOrEmpty(i)) =>
          /\ log[1].base = Len(base_urls)
          /\ \A stage \in AvailableStages : Attempted(stage)

(***************************************************************************)
(* Two calls of get_local_prices in a row: the caller keeps the live       *)
(* estimate of the first call and calls again later, possibly from a new   *)
(* process.                                                                *)
(***************************************************************************)
\* line 102: the live estimate is returned to the caller, who keeps it
\* together with the query, the resolved code and the time
Again ==
    /\ pc = "idle"
    /\ result.status = "returned"
    /\ cached = None
    /\ IsEstimate(result.value[1])
    /\ args = None
    /\ args' = Some([req |-> req, insee_code |-> insee_code,
                     value |-> result.value[1], at |-> now])
    /\ req' = NoReq
    /\ geo' = << >>
    /\ insee_code' = None
    /\ pos' = NoPos
    /\ totals' = <<0, 0>>
    /\ log' = << >>
    /\ agg' = None
    /\ result' = [status |-> "none", value |-> None]
    /\ UNCHANGED <<pc, cached, out, conversation_state>>
    /\ UNCHANGED cacheVars

InitSpecRepeat == InitCache /\ InitEst /\ InitFn

\* the answers of the dataset in the two calls: a timeout, a non-200 status,
\* no data, or the sums of the commune
RepeatResponses(code) ==
    { r \in DvfResponses(code) : r.body.name \in {"none", "empty", "own"} }

NextRepeat ==
    \/ \E c \in Cities, pcode \in PostalCodes, t \in Types : Call(c, pcode, t)
    \/ \E resp \in GeoResponses : Resolve(resp)
    \/ Lookup
    \/ pc = "fetch" /\ \E resp \in RepeatResponses(insee_code[1]) : Fetch(resp)
    \/ \E o \in WriteOutcomes : Package(o)
    \/ \E d \in ClockSteps : Tick(d)
    \/ Restart
    \/ Again

SpecRepeat == InitSpecRepeat /\ [][NextRepeat]_vars

\* the running call repeats the query of the kept estimate, under the same
\* resolved code, less than 24 h after it
RepeatInTime ==
    /\ args # None
    /\ req = args[1].req
    /\ insee_code = args[1].insee_code
    /\ now - args[1].at < 86400

LowerLetters == <<"a", "b", "c", "d", "e", "f", "g", "h", "i", "j", "k", "l", "m",
                  "n", "o", "p", "q", "r", "s", "t", "u", "v", "w", "x", "y", "z">>
UpperLetters == <<"A", "B", "C", "D", "E", "F", "G", "H", "I", "J", "K", "L", "M",
                  "N", "O", "P", "Q", "R", "S", "T", "U", "V", "W", "X", "Y", "Z">>

IsLetter(ch) == InSeq(ch, LowerLetters) \/ InSeq(ch, UpperLetters)

\* str.upper() on one character (ASCII letters)
UpperChar(ch) ==
    IF InSeq(ch, LowerLetters)
    THEN UpperLetters[CHOOSE i \in DOMAIN LowerLetters : LowerLetters[i] = ch]
    ELSE ch

\* str.title(): a letter is upper-cased after a non-letter and lower-cased
\* after a letter
Title(str) ==
    [i \in DOMAIN str |->
        IF i > 1 /\ IsLetter(str[i - 1]) THEN LowerChar(str[i]) ELSE UpperChar(str[i])]

\* mutation of LikeMatch: letters are compared with their case
RECURSIVE LikeMatch_CaseSensitive(_, _)
LikeMatch_CaseSensitive(pat, txt) ==
    IF pat = << >> THEN txt = << >>
    ELSE IF Head(pat) = "%"
    THEN LikeMatch_CaseSensitive(Tail(pat), txt)
         \/ (txt # << >> /\ LikeMatch_CaseSensitive(pat, Tail(txt)))
    ELSE /\ txt # << >>
         /\ (Head(pat) = "_" \/ Head(pat) = Head(txt))
         /\ LikeMatch_CaseSensitive(Tail(pat), Tail(txt))

\* txt LIKE pat in SQLite: % is any run of characters, _ any one character,
\* ASCII letters match whatever their case
RECURSIVE LikeMatch(_, _)
LikeMatch(pat, txt) ==
    IF pat = << >> THEN txt = << >>
    ELSE IF Head(pat) = "%"
    THEN LikeMatch(Tail(pat), txt) \/ (txt # << >> /\ LikeMatch(pat, Tail(txt)))
    ELSE /\ txt # << >>
         /\ (Head(pat) = "_" \/ LowerChar(Head(pat)) = LowerChar(Head(txt)))
         /\ LikeMatch(Tail(pat), Tail(txt))

PriceRow(city, postal_code, property_type, price, count, reliability) ==
    [city |-> city, postal_code |-> postal_code, property_type |-> property_type,
     price_per_sqm_mean |-> price, transaction_count |-> count,
     reliability_score |-> reliability]

\* a table price_data: Nice twice, Venice, Lens, and a row without mean price
price_data ==
    { PriceRow(<<"N", "i", "c", "e">>, "06000", "apartment", Some(520090), 300, 90),
      PriceRow(<<"N", "i", "c", "e">>, "06100", "apartment", Some(480050), 500, 85),
      PriceRow(<<"V", "e", "n", "i", "c", "e">>, "06000", "apartment", Some(700000), 10, 40),
      PriceRow(<<"N", "i", "c", "e">>, "06000", "house", Some(610000), 40, 70),
      PriceRow(<<"L", "e", "n", "s">>, "62300", "house", Some(150020), 7, 55),
      PriceRow(<<"N", "i", "m", "e", "s">>, "30000", "house", None, 5, 50),
      PriceRow(<<"N", "i", "c", "e">>, "06000", "other", Some(300000), 3, 45),
      PriceRow(<<"L", "e", "n", "s">>, "62300", "other", Some(120000), 3, 45) }

\* the file is missing (db_path = None), sqlite3 raises on it, or it is read
DbStates == {"absent", "broken", "table"}

\* property_type.lower() in [...]: 'house', 'apartment' or 'other'
DvfPropType(property_type) ==
    IF LowerType(property_type) \in {"maison", "house"} THEN "house"
    ELSE IF LowerType(property_type) \in {"appartement", "apartment", "studio"} THEN "apartment"
    ELSE "other"

\* _get_fallback_price(property_type, city); city = None when not given
_get_fallback_price(property_type, city) ==
    [ price_per_sqm |-> CASE property_type = "apartment" -> 3200
                          [] property_type = "house" -> 3600
                          [] property_type = "other" -> 3000
                          [] OTHER -> 3200,
      source |-> IF city # None /\ city[1] # << >>
                 THEN [label |-> "Estimation nationale (ville non trouvee)",
                       city |-> city[1], postal_code |-> None]
                 ELSE [label |-> "Moyenne nationale DVF 2024",
                       city |-> << >>, postal_code |-> None],
      reliability_score |-> 60,
      data_period |-> "Moyenne nationale",
      transaction_count |-> 0 ]

\* ORDER BY transaction_count DESC LIMIT 1: the rows fetchone() may return
TopRows(rows) == { r \in rows : \A q \in rows : q.transaction_count <= r.transaction_count }

\* the dict built from a fetched row; int(None) raises, which the except
\* clause turns into the fallback without city
FromRow(row, shown_postal, prop_type) ==
    IF row.price_per_sqm_mean = None
    THEN _get_fallback_price(prop_type, None)
    ELSE [ price_per_sqm |-> row.price_per_sqm_mean[1] \div 100,
           source |-> [label |-> "DVF S1 2025", city |-> row.city,
                       postal_code |-> Some(shown_postal)],
           reliability_score |-> row.reliability_score,
           data_period |-> "Janvier - Juin 2025",
           transaction_count |-> row.transaction_count ]

\* DVFPriceAPI.get_price_estimate: the set of the dicts it may return
dvf_get_price_estimate(db, city, postal_code, property_type) ==
    LET prop_type == DvfPropType(property_type)
        city_clean == Title(Strip(city))
        by_postal == IF postal_code # None /\ postal_code[1] # ""
                     THEN { r \in price_data : r.postal_code = postal_code[1]
                                               /\ r.property_type = prop_type }
                     ELSE {}
        by_city == { r \in price_data :
                        /\ LikeMatch(<<"%">> \o city_clean \o <<"%">>, r.city)
                        /\ r.property_type = prop_type }
    IN  IF db = "absent" \/ db = "broken"
        THEN { _get_fallback_price(prop_type, None) }
        ELSE IF by_postal # {}
        THEN { FromRow(r, postal_code[1], prop_type) : r \in TopRows(by_postal) }
        ELSE IF by_city # {}
        THEN { FromRow(r, r.postal_code, prop_type) : r \in TopRows(by_city) }
        ELSE { _get_fallback_price(prop_type, Some(city)) }

\* place names given to the API: "Nice", "nice", "  NICE ", "ice", "", "Lens",
\* "lens", "Paris", "nimes", "saint-nice"
DvfCities ==
    { <<"N", "i", "c", "e">>, <<"n", "i", "c", "e">>, <<" ", " ", "N", "I", "C", "E", " ">>,
      <<"i", "c", "e">>, << >>, <<"L", "e", "n", "s">>, <<"l", "e", "n", "s">>,
      <<"P", "a", "r", "i", "s">>, <<"n", "i", "m", "e", "s">>,
      <<"s", "a", "i", "n", "t", "-", "n", "i", "c", "e">> }
DvfPostalCodes == {None, Some(""), Some("06000"), Some("06100"), Some("30000"), Some("99999")}

InitDvf ==
    /\ args \in { Some([fn |-> "dvf_get_price_estimate", db |-> db, city |-> c,
                        postal_code |-> p, property_type |-> t]) :
                  db \in DbStates, c \in DvfCities, p \in DvfPostalCodes, t \in PropertyTypes }
    /\ out = None
    /\ conversation_state = NoConversation

ApplyDvf ==
    /\ args # None
    /\ args[1].fn = "dvf_get_price_estimate"
    /\ out = None
    /\ \E r \in dvf_get_price_estimate(args[1].db, args[1].city, args[1].postal_code,
                                       args[1].property_type) :
          out' = Some(r)
    /\ UNCHANGED <<args, conversation_state, cacheVars, estVars>>

InitSpecDvf == InitCache /\ InitEst /\ InitDvf

SpecDvf == InitSpecDvf /\ [][ApplyDvf]_vars

DvfDone == args # None /\ args[1].fn = "dvf_get_price_estimate" /\ out # None
\* the category searched for
DvfCategory ==
    IF args[1].property_type \in {"house", "Maison", "MAISON"} THEN "house"
    ELSE IF args[1].property_type \in {"apartment", "Appartement", "studio"} THEN "apartment"
    ELSE "other"
\* the rows of the category with the postal code given, and those whose city
\* contains the trimmed name, letters compared without their case
DvfPostalRows ==
    IF args[1].postal_code \in {None, Some("")} THEN {}
    ELSE { r \in price_data : r.postal_code = args[1].postal_code[1]
                              /\ r.property_type = DvfCategory }
DvfCityRows ==
    { r \in price_data : /\ IsSubstring(Lower(Strip(args[1].city)), Lower(r.city))
                         /\ r.property_type = DvfCategory }
DvfBest(rows) == { r \in rows : \A q \in rows : q.transaction_count <= r.transaction_count }
DvfNational == CASE DvfCategory = "apartment" -> 3200
                 [] DvfCategory = "house" -> 3600
                 [] OTHER -> 3000
DvfIsNational(r) ==
    r.price_per_sqm = DvfNational /\ r.transaction_count = 0 /\ r.reliability_score = 60
DvfIsRow(r, row) ==
    /\ row.price_per_sqm_mean # None
    /\ r.price_per_sqm = row.price_per_sqm_mean[1] \div 100
    /\ r.transaction_count = row.transaction_count
    /\ r.source.city = row.city

MarketPriceOr3200(market_data) ==
    IF HasField(market_data, "price_per_sqm") THEN market_data.price_per_sqm ELSE 3200

\* n / d as a fraction with a positive denominator (d # 0)
SignedFrac(n, d) == IF d < 0 THEN Frac(-n, -d) ELSE Frac(n, d)

\* DVFPriceAPI's if/elif chain on diff: the score
DvfScore(diff) ==
    IF FracLt(diff, -10) THEN "Excellent prix"
    ELSE IF FracLt(diff, 0) THEN "Bon prix"
    ELSE IF FracLt(diff, 10) THEN "Prix correct"
    ELSE IF FracLt(diff, 20) THEN "Legerement surcote"
    ELSE "Surcote"

\* SimplePriceAPI's if/elif chain on diff: the score
SimpleScore(diff) ==
    IF FracLt(diff, -10) THEN "Excellent prix"
    ELSE IF FracLt(diff, 0) THEN "Bon prix"
    ELSE IF FracLt(diff, 10) THEN "Prix correct"
    ELSE IF FracLt(diff, 20) THEN "Legerement surcote"
    ELSE "Surcote"

\* DVFPriceAPI.compare_property_price: the dict returned, or the exception
dvf_compare_property_price(property_price, property_surface, market_data) ==
    IF property_surface <= 0
    THEN [status |-> "returned", value |-> [error |-> "Surface invalide"]]
    ELSE LET market_price_sqm == MarketPriceOr3200(market_data)
         IN  IF market_price_sqm = 0
             THEN [status |-> "raised", value |-> [exception |-> "ZeroDivisionError"]]
             ELSE LET diff == SignedFrac(100 * (property_price - market_price_sqm * property_surface),
                                         property_surface * market_price_sqm)
                  IN  [status |-> "returned",
                       value |-> [property_price_per_sqm |-> Frac(property_price, property_surface),
                                  market_price_per_sqm |-> market_price_sqm,
                                  percentage_difference |-> diff,
                                  score |-> DvfScore(diff)]]

\* SimplePriceAPI.compare_property_price: the dict returned, or the exception
simple_compare_property_price(property_price, property_surface, market_data) ==
    IF property_surface <= 0
    THEN [status |-> "returned", value |-> [error |-> "Surface invalide"]]
    ELSE LET market_price_sqm == MarketPriceOr3200(market_data)
         IN  IF market_price_sqm = 0
             THEN [status |-> "raised", value |-> [exception |-> "ZeroDivisionError"]]
             ELSE LET diff == SignedFrac(100 * (property_price - market_price_sqm * property_surface),
                                         property_surface * market_price_sqm)
                  IN  [status |-> "returned",
                       value |-> [property_price_per_sqm |-> Frac(property_price, property_surface),
                                  market_price_per_sqm |-> market_price_sqm,
                                  percentage_difference |-> diff,
                                  score |-> SimpleScore(diff)]]

InitVariants ==
    /\ args \in { Some([fn |-> "compare_variants", property_price |-> p,
                        property_surface |-> a, market_data |-> md]) :
                  p \in ComparePrices, a \in CompareSurfaces, md \in CompareMarkets }
    /\ out = None
    /\ conversation_state = NoConversation

\* the same (price, area, estimate) is given to the three comparators
ApplyVariants ==
    /\ args # None
    /\ args[1].fn = "compare_variants"
    /\ out = None
    /\ out' = Some([main |-> [status |-> "returned",
                              value |-> compare_property_price(
                                  args[1].property_price, args[1].property_surface,
                                  args[1].market_data).value],
                    dvf |-> dvf_compare_property_price(
                                  args[1].property_price, args[1].property_surface,
                                  args[1].market_data),
                    simple |-> simple_compare_property_price(
                                  args[1].property_price, args[1].property_surface,
                                  args[1].market_data)])
    /\ UNCHANGED <<args, conversation_state, cacheVars, estVars>>

InitSpecVariants == InitCache /\ InitEst /\ InitVariants

SpecVariants == InitSpecVariants /\ [][ApplyVariants]_vars

VariantsDone == args # None /\ args[1].fn = "compare_variants" /\ out # None

\* the rank, 1 to 5, of the band a result was placed in
BandOf(r) ==
    CASE r.value.score \in {"Excellent", "Excellent prix"} -> 1
      [] r.value.score \in {"Bon", "Bon prix"} -> 2
      [] r.value.score \in {"Correct", "Prix correct"} -> 3
      [] r.value.score \in {"Eleve", "Legerement surcote"} -> 4
      [] OTHER -> 5

\* results r and s are both errors, or are in the same band
SameVerdict(r, s) ==
    /\ s.status = "returned"
    /\ HasField(s.value, "error") = HasField(r.value, "error")
    /\ ~HasField(r.value, "error") => BandOf(s) = BandOf(r)

\* C25: for every (price, area, estimate) the comparators of DVFPriceAPI and
\* SimplePriceAPI return an error exactly when PriceAPI's does (area <= 0 or
\* no usable market price) without dividing by zero, and otherwise place
\* pct_diff in the same one of the five bands.
C25_VariantsAgree ==
    VariantsDone =>
        /\ SameVerdict(out[1].main, out[1].dvf)
        /\ SameVerdict(out[1].main, out[1].simple)

(***************************************************************************)
(* _query_dvf (price_api.py 131-275): the record search.  A sale record    *)
(* carries the fields the code reads; its date is a day number, the call   *)
(* being made in the course of day Today.                                  *)
(***************************************************************************)
Today == 1000

\* cutoff = utcnow() - timedelta(days=max(1, months) * 30), months = 24
CutoffDay == Today - 24 * 30

\* the two hard-coded search endpoints (DVF_API_BASE_URL is not set)
search_urls == << "data.economie.gouv.fr", "api.etalab.gouv.fr" >>

Sale(code, price, surface, tloc, day) ==
    [code_commune |-> code, valeur_fonciere |-> price, surface_reelle_bati |-> surface,
     type_local |-> tloc, date_mutation |-> day]

\* sales of commune 17434 (recent, old, of the day of the cutoff, without
\* price, of another type) and a recent sale of another commune of
\* department 17
SaleRecent == Sale("17434", 200000, 50, "Appartement", Today - 100)
SaleOld == Sale("17434", 150000, 50, "Appartement", Today - 800)
SaleAtCutoff == Sale("17434", 150000, 50, "Appartement", CutoffDay)
SaleNoPrice == Sale("17434", 0, 50, "Appartement", Today - 100)
SaleMaison == Sale("17434", 300000, 90, "Maison", Today - 100)
SaleElsewhere == Sale("17700x", 100000, 40, "Appartement", Today - 100)

\* what a search endpoint can answer: a transport error or timeout, a non-200
\* status, or a 200 with records
SearchAnswer(status, records) == [status |-> status, records |-> records]

\* answers to the query refined by code_commune: sales of that commune only
CommuneAnswers ==
    { SearchAnswer("exc", << >>), SearchAnswer("non200", << >>),
      SearchAnswer("ok", << >>),
      SearchAnswer("ok", <<SaleRecent>>),
      SearchAnswer("ok", <<SaleOld, SaleNoPrice>>),
      SearchAnswer("ok", <<SaleMaison, SaleRecent, SaleAtCutoff>>) }

\* answers to the query refined by code_departement
DepartmentAnswers ==
    { SearchAnswer("exc", << >>), SearchAnswer("non200", << >>),
      SearchAnswer("ok", << >>),
      SearchAnswer("ok", <<SaleElsewhere>>),
      SearchAnswer("ok", <<SaleElsewhere, SaleRecent, SaleOld>>),
      SearchAnswer("ok", <<SaleRecent, SaleNoPrice, SaleElsewhere>>) }

\* index of the first endpoint that answers 200, 0 when none does
FirstOk(answers) ==
    IF \E i \in DOMAIN answers : answers[i].status = "ok"
    THEN Min({ i \in DOMAIN answers : answers[i].status = "ok" })
    ELSE 0

\* the requests of one loop over the endpoints: it stops at the first 200
Requests(by, answers) ==
    [i \in 1..(IF FirstOk(answers) = 0 THEN Len(answers) ELSE FirstOk(answers)) |->
        [by |-> by, base |-> i, status |-> answers[i].status]]

\* "apartment", "house" or None, from type_local
NormType(tloc) ==
    IF tloc = "Appartement" THEN Some("apartment")
    ELSE IF tloc = "Maison" THEN Some("house")
    ELSE None

\* "if not price or not surf or not d" and "if d_obj < cutoff", the clock
\* being past midnight
Usable(rec) ==
    /\ rec.valeur_fonciere # 0
    /\ rec.surface_reelle_bati # 0
    /\ rec.date_mutation > CutoffDay

\* the record passes the loop over the commune's records
KeptCommune(rec, property_type) ==
    /\ Usable(rec)
    /\ ~(NormType(rec.type_local) # None /\ NormType(rec.type_local)[1] # property_type)

\* the record passes the loop over the department's records
KeptDepartment(rec, insee) == rec.code_commune = insee /\ Usable(rec)

TxOfCommune(rec, property_type) ==
    Tx(rec.valeur_fonciere, rec.surface_reelle_bati,
       IF NormType(rec.type_local) # None THEN NormType(rec.type_local)[1] ELSE property_type,
       rec.date_mutation)

TxOfDepartment(rec, property_type) ==
    Tx(rec.valeur_fonciere, rec.surface_reelle_bati, property_type, rec.date_mutation)

\* the transactions built from the commune's records
CommuneTxs(records, property_type) ==
    LET kept == SelectSeq(records, LAMBDA r : KeptCommune(r, property_type))
    IN  [i \in DOMAIN kept |-> TxOfCommune(kept[i], property_type)]

\* the transactions built from the department's records
DepartmentTxs(records, insee, property_type) ==
    LET kept == SelectSeq(records, LAMBDA r : KeptDepartment(r, insee))
    IN  [i \in DOMAIN kept |-> TxOfDepartment(kept[i], property_type)]

\* _query_dvf: the transactions returned and the requests sent, given the
\* answers of the endpoints to the commune query and to the department query
_query_dvf(insee, property_type, commune, department) ==
    LET c == FirstOk(commune)
        records == IF c = 0 THEN << >> ELSE commune[c].records
        creq == Requests("code_commune", commune)
        txs == CommuneTxs(records, property_type)
        d == FirstOk(department)
    IN  IF records = << >>
        THEN [txs |-> << >>, requests |-> creq]
        ELSE IF txs = << >> /\ Len(insee) >= 2
        THEN [txs |-> IF d = 0 THEN << >>
                      ELSE DepartmentTxs(department[d].records, insee, property_type),
              requests |-> creq \o Requests("code_departement", department)]
        ELSE [txs |-> txs, requests |-> creq]

InitQuery ==
    /\ args \in { Some([fn |-> "_query_dvf", insee_code |-> "17434", property_type |-> t,
                        commune |-> c, department |-> d]) :
                  t \in Types, c \in [DOMAIN search_urls -> CommuneAnswers],
                  d \in [DOMAIN search_urls -> DepartmentAnswers] }
    /\ out = None
    /\ conversation_state = NoConversation

ApplyQuery ==
    /\ args # None
    /\ args[1].fn = "_query_dvf"
    /\ out = None
    /\ out' = Some(_query_dvf(args[1].insee_code, args[1].property_type,
                              args[1].commune, args[1].department))
    /\ UNCHANGED <<args, conversation_state, cacheVars, estVars>>

InitSpecQuery == InitCache /\ InitEst /\ InitQuery

SpecQuery == InitSpecQuery /\ [][ApplyQuery]_vars

QueryDone == args # None /\ args[1].fn = "_query_dvf" /\ out # None

\* a department-wide request was sent
DepartmentAttempted == \E i \in DOMAIN out[1].requests : out[1].requests[i].by = "code_departement"

\* the records of the department answer that was read
DepartmentRecords ==
    IF FirstOk(args[1].department) = 0 THEN << >>
    ELSE args[1].department[FirstOk(args[1].department)].records

\* C26: whenever the commune-code query gives no usable transaction, also
\* when the endpoint answers 200 with no record, a department-wide query is
\* sent; what is returned from it are records of the requested commune
\* dated within the lookback window.
C26_DepartmentFallback ==
    QueryDone =>
        /\ ~DepartmentAttempted => out[1].txs # << >>
        /\ DepartmentAttempted =>
              \A i \in DOMAIN out[1].txs :
                  \E j \in DOMAIN DepartmentRecords :
                      LET rec == DepartmentRecords[j] IN
                      /\ rec.code_commune = args[1].insee_code
                      /\ rec.date_mutation > CutoffDay
                      /\ out[1].txs[i].price = rec.valeur_fonciere
                      /\ out[1].txs[i].date = rec.date_mutation

\* the entry e of a cache tier, when it holds a value, holds an estimate
HoldsEstimate(e) == e.kind = "json" => IsEstimate(e.data)

\* C27: what get_local_prices returns is either an error result ('error', no
\* price_per_sqm) or an estimate (no 'error', price_per_sqm an integer >= 1);
\* only estimates are written to the cache, so that no error result is
\* cached or served from the cache.
C27_ErrorOrEstimate ==
    /\ result.status = "returned" =>
          LET r == result.value[1] IN
          \/ IsError(r)
          \/ IsEstimate(r) /\ r.price_per_sqm \in Nat /\ r.price_per_sqm >= 1
    /\ \A k \in Keys : HoldsEstimate(mem_cache[k]) /\ HoldsEstimate(disk[_safe_key(k)])
    /\ (result.status = "returned" /\ cached # None) => IsEstimate(result.value[1])

\* the entries of the log that belong to one strategy
StageEntries(stage) == SelectSeq(log, LAMBDA e : e.stage = stage)

\* the sums one strategy's answers contributed on the endpoint in progress
StageTotals(stage) ==
    << LogTotal(StageEntries(stage), "valeur_fonciere"),
       LogTotal(StageEntries(stage), "surface_reelle_bati") >>

\* C28: the average _query_dvf_aggregate returns is the total price over the
\* total surface of the answers of one strategy on one endpoint, the one
\* that returned: sums of different strategies are never combined.
C28_OneStrategyAverage ==
    (pc = "package" /\ agg # None) =>
        LET own == StageTotals(log[Len(log)].stage)
        IN  /\ totals = own
            /\ agg[1].avg_m2 = FDiv(own[1], own[2])

\* the lookback window of the request whose answer made the totals sufficient
ProducingWindow == log[Len(log)].window

\* C29: the period_months of the aggregate and the data_period label of the
\* estimate built from it name the lookback window of the query whose data
\* produced the price: 36 months, not 24, for an estimate obtained through
\* the widened query.
C29_PeriodLabel ==
    /\ (pc = "package" /\ agg # None) => agg[1].period_months = ProducingWindow
    /\ LiveEstimateReturned =>
          result.value[1].data_period = <<ProducingWindow, "derniers mois">>

(***************************************************************************)
(* AIAssistant's questionnaire (ai_assistant.py 851-952).  An answer is    *)
(* the sequence of its characters; Euro stands for the euro sign.          *)
(***************************************************************************)
Euro == "EUR"

Digits == <<"0", "1", "2", "3", "4", "5", "6", "7", "8", "9">>
IsDigit(ch) == InSeq(ch, Digits)
DigitVal(ch) == (CHOOSE i \in DOMAIN Digits : Digits[i] = ch) - 1

RECURSIVE DigitsVal(_)
DigitsVal(str) ==
    IF str = << >> THEN 0
    ELSE 10 * DigitsVal(SubSeq(str, 1, Len(str) - 1)) + DigitVal(str[Len(str)])

RECURSIVE Pow10(_)
Pow10(k) == IF k = 0 THEN 1 ELSE 10 * Pow10(k - 1)

\* str.replace(ch, '') and str.replace(a, b) for one character
RemoveChar(str, ch) == SelectSeq(str, LAMBDA c : c # ch)
ReplaceChar(str, a, b) == [i \in DOMAIN str |-> IF str[i] = a THEN b ELSE str[i]]

\* float(text) for a text of digits, '.', a sign and letters other than those
\* of inf, nan and exponents: None is ValueError, Some(q) the number read
ParseFloat(text) ==
    LET signed == text # << >> /\ Head(text) \in {"-", "+"}
        body == IF signed THEN Tail(text) ELSE text
        digs == SelectSeq(body, IsDigit)
        dots == { i \in DOMAIN body : body[i] = "." }
        after == IF dots = {} THEN 0 ELSE Len(body) - (CHOOSE i \in dots : TRUE)
        q == Norm(Frac(DigitsVal(digs), Pow10(after)))
    IN  IF /\ digs # << >>
           /\ Cardinality(dots) <= 1
           /\ \A i \in DOMAIN body : IsDigit(body[i]) \/ body[i] = "."
        THEN Some(IF signed /\ Head(text) = "-" THEN Frac(0 - q.num, q.den) ELSE q)
        ELSE None

\* float(answer.replace('€', '').replace(' ', '').replace(',', '.'))
ParseAmount(answer) ==
    ParseFloat(ReplaceChar(RemoveChar(RemoveChar(answer, Euro), " "), ",", "."))

\* word in answer.lower()
Says(answer, word) == IsSubstring(word, Lower(answer))

locatif == <<"l", "o", "c", "a", "t", "i", "f">>
investissement == <<"i", "n", "v", "e", "s", "t", "i", "s", "s", "e", "m", "e", "n", "t">>
personnel == <<"p", "e", "r", "s", "o", "n", "n", "e", "l">>
habiter == <<"h", "a", "b", "i", "t", "e", "r">>
revente == <<"r", "e", "v", "e", "n", "t", "e">>
plus_value == <<"p", "l", "u", "s", "-", "v", "a", "l", "u", "e">>
sci == <<"s", "c", "i">>
indivision == <<"i", "n", "d", "i", "v", "i", "s", "i", "o", "n">>

\* the investment type an answer to the first question names, None if none
InvestmentType(answer) ==
    IF Says(answer, locatif) \/ Says(answer, investissement) THEN Some("rental")
    ELSE IF Says(answer, personnel) \/ Says(answer, habiter) THEN Some("personal")
    ELSE IF Says(answer, revente) \/ Says(answer, plus_value) THEN Some("flip")
    ELSE None

OwnershipType(answer) ==
    IF Says(answer, sci) THEN "sci"
    ELSE IF Says(answer, indivision) THEN "joint"
    ELSE "personal"

\* collected_answers[question] = value
Collect(state, question, value) ==
    [state EXCEPT !.collected_answers =
        [q \in DOMAIN state.collected_answers \cup {question} |->
            IF q = question THEN value ELSE state.collected_answers[q]]]

\* mutation of AfterMonthlyRent: the charges question is skipped
AfterMonthlyRent_Skip == "ownership_type"

\* the question that follows an accepted rent
AfterMonthlyRent == "annual_charges"

\* start_questionnaire: the new conversation_state
start_questionnaire ==
    [questionnaire_active |-> TRUE, current_question |-> Some("investment_type"),
     collected_answers |-> << >>]

\* process_questionnaire_answer: the new conversation_state and the reply
process_questionnaire_answer(state, answer) ==
    LET current_q == state.current_question
        misunderstood == [state |-> state, reply |-> "not_understood"]
    IN  IF current_q = Some("investment_type")
        THEN LET type == InvestmentType(answer)
             IN  IF type = Some("rental")
                 THEN [state |-> [Collect(state, "investment_type", "rental")
                                     EXCEPT !.current_question = Some("monthly_rent")],
                       reply |-> "ask_monthly_rent"]
                 ELSE IF type = Some("personal")
                 THEN [state |-> Collect(state, "investment_type", "personal"),
                       reply |-> "finish_personal_analysis"]
                 ELSE IF type = Some("flip")
                 THEN [state |-> Collect(state, "investment_type", "flip"),
                       reply |-> "finish_flip_analysis"]
                 ELSE misunderstood
        ELSE IF current_q = Some("monthly_rent")
        THEN LET rent == ParseAmount(answer)
             IN  IF rent = None
                 THEN [state |-> state, reply |-> "amount_expected"]
                 ELSE [state |-> [Collect(state, "monthly_rent", rent[1])
                                     EXCEPT !.current_question = Some(AfterMonthlyRent)],
                       reply |-> "ask_annual_charges"]
        ELSE IF current_q = Some("annual_charges")
        THEN LET charges == ParseAmount(answer)
             IN  IF charges = None
                 THEN [state |-> state, reply |-> "amount_expected"]
                 ELSE [state |-> [Collect(state, "annual_charges", charges[1])
                                     EXCEPT !.current_question = Some("ownership_type")],
                       reply |-> "ask_ownership_type"]
        ELSE IF current_q = Some("ownership_type")
        THEN [state |-> Collect(state, "ownership_type", OwnershipType(answer)),
              reply |-> "finish_rental_analysis"]
        ELSE misunderstood

MaxAnswerLen == 3
AnswerAlphabet == {"8", ",", "a"}

\* "Investissement locatif", "LOCATIF", "pour habiter", "achat-revente",
\* "plus-value", "via une SCI", "en indivision", "nom propre", "850 EUR",
\* "1 200,50", "-50", "1.2.3", "douze", ""
NamedAnswers ==
    { <<"I", "n", "v", "e", "s", "t", "i", "s", "s", "e", "m", "e", "n", "t", " ",
        "l", "o", "c", "a", "t", "i", "f">>,
      <<"L", "O", "C", "A", "T", "I", "F">>,
      <<"p", "o", "u", "r", " ", "h", "a", "b", "i", "t", "e", "r">>,
      <<"a", "c", "h", "a", "t", "-", "r", "e", "v", "e", "n", "t", "e">>,
      <<"p", "l", "u", "s", "-", "v", "a", "l", "u", "e">>,
      <<"v", "i", "a", " ", "u", "n", "e", " ", "S", "C", "I">>,
      <<"e", "n", " ", "i", "n", "d", "i", "v", "i", "s", "i", "o", "n">>,
      <<"n", "o", "m", " ", "p", "r", "o", "p", "r", "e">>,
      <<"8", "5", "0", " ", Euro>>,
      <<"1", " ", "2", "0", "0", ",", "5", "0">>,
      <<"-", "5", "0">>,
      <<"1", ".", "2", ".", "3">>,
      <<"d", "o", "u", "z", "e">>,
      << >> }

Answers == NamedAnswers \cup UNION { [1..n -> AnswerAlphabet] : n \in 1..MaxAnswerLen }

StartQuestionnaire ==
    /\ conversation_state' = start_questionnaire
    /\ out' = Some("ask_investment_type")
    /\ UNCHANGED <<args, cacheVars, estVars>>

ProcessAnswer(answer) ==
    /\ LET r == process_questionnaire_answer(conversation_state, answer)
       IN  /\ conversation_state' = r.state
           /\ out' = Some(r.reply)
    /\ UNCHANGED <<args, cacheVars, estVars>>

InitSpecQuestionnaire == InitCache /\ InitEst /\ InitFn

NextQuestionnaire ==
    \/ StartQuestionnaire
    \/ \E answer \in Answers : ProcessAnswer(answer)

SpecQuestionnaire == InitSpecQuestionnaire /\ [][NextQuestionnaire]_vars

\* the questions of the rental path, in the order they are asked
RentalPath == <<"investment_type", "monthly_rent", "annual_charges", "ownership_type">>
PathRank(q) == IF q = None THEN 0 ELSE CHOOSE i \in DOMAIN RentalPath : RentalPath[i] = q[1]

\* the answer is one the question q does not accept
NotAccepted(q, answer) ==
    \/ q = Some("investment_type")
         /\ \A w \in {locatif, investissement, personnel, habiter, revente, plus_value} :
               ~IsSubstring(w, Lower(answer))
    \/ q \in {Some("monthly_rent"), Some("annual_charges")} /\ ParseAmount(answer) = None

\* C30: after start_questionnaire the rental path asks investment_type,
\* monthly_rent, annual_charges and ownership_type in that order: an answer
\* moves the current question forward by one question at most, recording the
\* answer under the question it leaves, and never back; an investment type
\* that is not recognised, or a rent or charges that is not a number, leaves
\* current_question and collected_answers as they were.
C30_QuestionnaireOrder ==
    [][\A answer \in Answers :
          ProcessAnswer(answer) =>
              LET q == conversation_state.current_question
                  q2 == conversation_state'.current_question
              IN  /\ q2 = q \/ (q # None /\ PathRank(q2) = PathRank(q) + 1)
                  /\ q2 # q =>
                        /\ q[1] \in DOMAIN conversation_state'.collected_answers
                        /\ \A p \in DOMAIN conversation_state.collected_answers \ {q[1]} :
                              /\ p \in DOMAIN conversation_state'.collected_answers
                              /\ conversation_state'.collected_answers[p]
                                    = conversation_state.collected_answers[p]
                  /\ (q \in {Some("monthly_rent"), Some("annual_charges")}
                        /\ ParseAmount(answer) # None) => PathRank(q2) = PathRank(q) + 1
                  /\ (q = Some("investment_type")
                        /\ (IsSubstring(locatif, Lower(answer))
                              \/ IsSubstring(investissement, Lower(answer))))
                        => q2 = Some("monthly_rent")
                  /\ NotAccepted(q, answer) => conversation_state' = conversation_state]_vars

\* the four questions were gone through with "850 EUR" and "1 200,50", and
\* an answer that is no amount was refused on the way
C30_Witness ==
    /\ conversation_state.questionnaire_active
    /\ conversation_state.current_question = Some("ownership_type")
    /\ DOMAIN conversation_state.collected_answers = {"investment_type", "monthly_rent", "annual_charges", "ownership_type"}
    /\ conversation_state.collected_answers["monthly_rent"] = Frac(850, 1)
    /\ conversation_state.collected_answers["annual_charges"] = Frac(2401, 2)
    /\ conversation_state.collected_answers["ownership_type"] = "sci"
    /\ out = Some("finish_rental_analysis")

====
